---- MODULE Spec2Model ----
(***************************************************************************)
(* Incremental collector of the e-mail parser (app/gmail/client.py,        *)
(* app/gmail/client_async.py) and the pipeline cycles that drive it        *)
(* (app/pipeline/run.py, app/pipeline/run_async.py, app/service.py).       *)
(* The collector's API on a keyed store, get_message_briefs with its       *)
(* semaphore, and the rate limiter (app/utils/rate_limiter.py) are         *)
(* exercised on their own, each under a specification of its own.          *)
(*                                                                         *)
(* Message IDs are positive integers handed out in arrival order, so a     *)
(* larger ID is a newer message; the remote listing is newest-first.       *)
(***************************************************************************)
EXTENDS Integers, Sequences, FiniteSets, TLC

\* ---------------------------------------------------------------- bounds
MaxInit == 3        \* IDs 1..MaxInit may be in the mailbox initially
MaxArrivals == 1    \* messages that arrive while the model runs
MaxLimit == 3       \* GMAIL_BATCH_LIMIT ranges over 1..MaxLimit
MaxPage == 2        \* the server returns at most 1..MaxPage IDs per page
MaxIds == 3         \* get_message_briefs is asked for at most MaxIds IDs
MaxBatch == 3       \* max_batch_size ranges over 1..MaxBatch
MaxConcurrent == 2  \* max_concurrent ranges over 1..MaxConcurrent
MaxThreads == 2     \* threads (coroutines) that share one rate limiter
MaxCalls == 1       \* max_calls ranges over 1..MaxCalls
MaxWindow == 1      \* time_window ranges over 1..MaxWindow ticks of 0.1 s
MaxClock == 2       \* the clock runs from 0 to MaxClock ticks
MaxAttempts == 3    \* acquire is called at most MaxAttempts times

\* ------------------------------------------------------- value encodings
None == -1          \* Python None: no marker stored / returned by get
EmptyStr == 0       \* the empty string "" (an empty head_id)
NoToken == 0        \* page_token None: listing starts at the first page
MaxResultsCap == 500

VARIABLES
    mailbox,        \* remote listing, newest-first
    nextId,         \* ID the next arriving message gets
    arrivals,       \* messages arrived so far
    store,          \* storage.get(pointer_key): a message ID or None
    limit,          \* cfg["BATCH_LIMIT"]
    pc,             \* position of the pipeline cycle
    runner,         \* "run" | "run_async" | "service"
    companies,      \* TRUE iff fetch_pending_companies returned a non-empty list
    collected,      \* TRUE iff collect_new_messages_once returned in this cycle
    res,            \* what collect_new_messages_once read and returned in this cycle
    need,           \* which writers classification calls for
    writers,        \* what each sheet writer did in this cycle
    advanced,       \* TRUE iff advance_pointer_after_processing was called in this cycle
    startStore,     \* history: store when the cycle started
    pending,        \* history: the IDs of a cycle that read a marker, returned
                    \* IDs and ended without advance, until the next collect
    arrivedSince,   \* history: arrivals since the latest collect
    delivered,      \* history: IDs returned by some collect
    base,           \* history: the marker stored initially
    kv,             \* a key-value store with several keys: key -> value or None
    call,           \* the latest call made directly on a client's API
    req,            \* get_message_briefs: the call's arguments and what each
                    \* message's fetch and extraction will do
    fpc,            \* get_message_briefs: position of the call
    tasks,          \* async: tasks[i] is where process_with_semaphore(ids[i]) is
    sem,            \* async: the semaphore's free permits
    results,        \* async: results[i] is what task i returned
    finished,       \* async: task indices in the order the tasks completed
    ret,            \* the summaries get_message_briefs returned
    outcome,        \* what the cycle made of the summaries
    clock,          \* time.time(), in ticks of 0.1 s
    rl,             \* the rate limiter's max_calls and time_window
    call_times,     \* the rate limiter's deque of recorded call times
    lock,           \* the rate limiter's lock: the thread that holds it, or Free
    th,             \* th[t]: where thread t is inside acquire and its locals
    recorded,       \* history: recorded[i] is the tick at which call_times[i]
                    \* was appended
    issued,         \* history: the remote calls issued within the last window
    tally,          \* history: acquire calls started, granted and denied
    norm,           \* normalize_soft: a text, its normal form, and the normal
                    \* form of that
    flt,            \* filter_by_company: the companies, the email at hand
                    \* and the result so far
    cls,            \* classify_latest: the company at hand, its emails and
                    \* the buckets so far
    sch,            \* PipelineScheduler: its flags, statistics, the loop
                    \* thread's position and the callers of stop()
    hs,             \* the health endpoint: where the handler and the server
                    \* keep their health function, and the latest answer
    cyc             \* scheduled cycles of one service process: the mailbox,
                    \* the storage objects and what each cycle read

apiVars == <<kv, call>>

fetchVars == <<req, fpc, tasks, sem, results, finished, ret, outcome>>

limiterVars == <<clock, rl, call_times, recorded, lock, th, issued, tally>>

textVars == <<norm, flt, cls>>

svcVars == <<sch, hs, cyc>>

\* state of the components that are exercised on their own
ext == <<apiVars, fetchVars, limiterVars, textVars, svcVars>>

vars == <<mailbox, nextId, arrivals, store, limit, pc, runner, companies,
          collected, res, need, writers, advanced, startStore, pending,
          arrivedSince, delivered, base, ext>>

\* --------------------------------------------------------------- helpers
Min(a, b) == IF a < b THEN a ELSE b

Max(a, b) == IF a > b THEN a ELSE b

Range(s) == {s[i] : i \in 1..Len(s)}

SetMax(S) == CHOOSE m \in S : \A x \in S : x <= m

RECURSIVE SortDesc(_)
SortDesc(S) ==
    IF S = {} THEN <<>>
    ELSE LET m == SetMax(S) IN <<m>> \o SortDesc(S \ {m})

\* Python truthiness of an Optional[str]
Truthy(v) == v # None /\ v # EmptyStr

\* ------------------------------------------------------ remote listing
\* users().messages().list(maxResults, pageToken).execute(): the page that
\* starts at offset page_token, at most Min(max_results, ps) IDs, and a
\* nextPageToken iff IDs remain after it.
ListMessagesPageNoToken(listing, max_results, page_token, ps) ==
    LET last == Min(Min(max_results, ps), Len(listing))
    IN  [messages      |-> SubSeq(listing, 1, last),
         nextPageToken |-> IF last < Len(listing) THEN last ELSE NoToken]

ListMessagesPage(listing, max_results, page_token, ps) ==
    LET n    == Min(max_results, ps)
        last == Min(page_token + n, Len(listing))
    IN  [messages      |-> SubSeq(listing, page_token + 1, last),
         nextPageToken |-> IF last < Len(listing) THEN last ELSE NoToken]

\* the `for m in msgs` loop of _list_until_marker, entered at msgs[i]
RECURSIVE ScanPageInclusive(_, _, _, _, _)
ScanPageInclusive(msgs, i, acc, lim, marker_id) ==
    IF i > Len(msgs) THEN [collected |-> acc, seen_marker |-> FALSE]
    ELSE LET mid  == msgs[i]
             acc2 == Append(acc, mid)
         IN  IF Truthy(marker_id) /\ mid = marker_id
             THEN [collected |-> acc2, seen_marker |-> TRUE]
             ELSE IF Len(acc2) >= lim
             THEN [collected |-> acc2, seen_marker |-> FALSE]
             ELSE ScanPageInclusive(msgs, i + 1, acc2, lim, marker_id)

RECURSIVE ScanPageSkip(_, _, _, _, _)
ScanPageSkip(msgs, i, acc, lim, marker_id) ==
    IF i > Len(msgs) THEN [collected |-> acc, seen_marker |-> FALSE]
    ELSE LET mid == msgs[i] IN
         IF Truthy(marker_id) /\ mid = marker_id
         THEN LET r == ScanPageSkip(msgs, i + 1, acc, lim, marker_id)
              IN  [collected |-> r.collected, seen_marker |-> TRUE]
         ELSE LET acc2 == Append(acc, mid) IN
              IF Len(acc2) >= lim
              THEN [collected |-> acc2, seen_marker |-> FALSE]
              ELSE ScanPageSkip(msgs, i + 1, acc2, lim, marker_id)

RECURSIVE ScanPage(_, _, _, _, _)
ScanPage(msgs, i, acc, lim, marker_id) ==
    IF i > Len(msgs) THEN [collected |-> acc, seen_marker |-> FALSE]
    ELSE LET mid == msgs[i] IN
         IF Truthy(marker_id) /\ mid = marker_id
         THEN [collected |-> acc, seen_marker |-> TRUE]
         ELSE LET acc2 == Append(acc, mid) IN
              IF Len(acc2) >= lim
              THEN [collected |-> acc2, seen_marker |-> FALSE]
              ELSE ScanPage(msgs, i + 1, acc2, lim, marker_id)

\* the `while len(collected) < limit` loop of _list_until_marker
RECURSIVE ListLoopOffByOne(_, _, _, _, _, _)
ListLoopOffByOne(listing, lim, marker_id, ps, acc, page_token) ==
    IF ~(Len(acc) <= lim) THEN [collected |-> acc, seen_marker |-> FALSE]
    ELSE LET remaining == Max(1, lim - Len(acc))
             resp == ListMessagesPage(listing, Min(MaxResultsCap, remaining),
                                      page_token, ps)
         IN  IF resp.messages = <<>>
             THEN [collected |-> acc, seen_marker |-> FALSE]
             ELSE LET r == ScanPage(resp.messages, 1, acc, lim, marker_id) IN
                  IF r.seen_marker \/ Len(r.collected) > lim THEN r
                  ELSE IF resp.nextPageToken = NoToken THEN r
                  ELSE ListLoopOffByOne(listing, lim, marker_id, ps,
                                        r.collected, resp.nextPageToken)

RECURSIVE ListLoop(_, _, _, _, _, _)
ListLoop(listing, lim, marker_id, ps, acc, page_token) ==
    IF ~(Len(acc) < lim) THEN [collected |-> acc, seen_marker |-> FALSE]
    ELSE LET remaining == Max(1, lim - Len(acc))
             resp == ListMessagesPage(listing, Min(MaxResultsCap, remaining),
                                      page_token, ps)
         IN  IF resp.messages = <<>>
             THEN [collected |-> acc, seen_marker |-> FALSE]
             ELSE LET r == ScanPage(resp.messages, 1, acc, lim, marker_id) IN
                  IF r.seen_marker \/ Len(r.collected) >= lim THEN r
                  ELSE IF resp.nextPageToken = NoToken THEN r
                  ELSE ListLoop(listing, lim, marker_id, ps, r.collected,
                                resp.nextPageToken)

ListUntilMarker(listing, lim, marker_id, ps) ==
    ListLoop(listing, lim, marker_id, ps, <<>>, NoToken)

ListUntilMarkerAsync(listing, lim, marker_id, ps) ==
    ListLoop(listing, lim, marker_id, ps, <<>>, NoToken)

\* ---------------------------------------------- collect_new_messages_once
\* `has_more = not seen_marker if marker else False`
HasMoreAlways(marker, seen_marker) == ~seen_marker

HasMore(marker, seen_marker) == IF Truthy(marker) THEN ~seen_marker ELSE FALSE

\* `(False if marker is None else not seen_marker)` of the no-IDs return
HasMoreEmpty(marker, seen_marker) == IF marker = None THEN FALSE ELSE ~seen_marker

\* `if marker is None and head_id: storage.set(pointer_key, head_id)`:
\* the value stored under pointer_key afterwards
BootstrapStoreAlways(st, marker, head_id) ==
    IF head_id # EmptyStr THEN head_id ELSE st

BootstrapStoreNever(st, marker, head_id) == st

BootstrapStore(st, marker, head_id) ==
    IF marker = None /\ head_id # EmptyStr THEN head_id ELSE st

\* GmailClient.collect_new_messages_once; st is the stored value, the result
\* carries the stored value on return
CollectOnceSync(st, listing, lim, ps) ==
    LET marker == st
        r      == ListUntilMarker(listing, lim, marker, ps)
        ids    == r.collected
    IN  IF ids = <<>>
        THEN LET head_probe == ListUntilMarker(listing, 1, None, ps).collected
                 head0      == IF head_probe # <<>> THEN head_probe[1] ELSE EmptyStr
                 head_id    == IF head0 = EmptyStr /\ Truthy(marker)
                               THEN marker ELSE head0
             IN  [ids |-> <<>>, head_id |-> head_id,
                  has_more |-> HasMoreEmpty(marker, r.seen_marker),
                  seen_marker |-> r.seen_marker, store |-> st]
        ELSE LET head_id == ids[1]
             IN  [ids |-> ids, head_id |-> head_id,
                  has_more |-> HasMore(marker, r.seen_marker),
                  seen_marker |-> r.seen_marker,
                  store |-> BootstrapStore(st, marker, head_id)]

\* AsyncGmailClient.collect_new_messages_once
CollectOnceAsync(st, listing, lim, ps) ==
    LET marker == st
        r      == ListUntilMarkerAsync(listing, lim, marker, ps)
        ids    == r.collected
    IN  IF ids = <<>>
        THEN LET head_probe == ListUntilMarkerAsync(listing, 1, None, ps).collected
                 head_id    == IF head_probe # <<>> THEN head_probe[1] ELSE EmptyStr
             IN  [ids |-> <<>>, head_id |-> head_id,
                  has_more |-> HasMoreEmpty(marker, r.seen_marker),
                  seen_marker |-> r.seen_marker, store |-> st]
        ELSE LET head_id == ids[1]
             IN  [ids |-> ids, head_id |-> head_id,
                  has_more |-> HasMore(marker, r.seen_marker),
                  seen_marker |-> r.seen_marker,
                  store |-> BootstrapStore(st, marker, head_id)]

\* advance_pointer_after_processing: the value stored afterwards
AdvancePointer(st, head_id) == IF head_id # EmptyStr THEN head_id ELSE st

\* ------------------------------------------------------- pipeline cycles
Runners == {"run", "run_async", "service"}

\* run.py and service.py build a GmailClient, run_async.py an AsyncGmailClient
CollectOnce(r, st, listing, lim, ps) ==
    IF r = "run_async" THEN CollectOnceAsync(st, listing, lim, ps)
    ELSE CollectOnceSync(st, listing, lim, ps)

\* where a cycle goes when fetch_pending_companies returned: service.py
\* returns at once without companies
AfterCompanies(r, hasCompanies) ==
    IF r = "service" /\ ~hasCompanies THEN "done" ELSE "collect"

\* `if not ids: return`
AfterCollect(ids) == IF ids = <<>> THEN "done" ELSE "briefs"

\* the branches between get_message_briefs and the first writer
AfterClassify(r, hasCompanies, briefsEmpty, relatedEmpty, nd) ==
    IF briefsEmpty \/ ~hasCompanies THEN "advance"
    ELSE IF relatedEmpty THEN "advance"
    ELSE IF ~(nd.statuses \/ nd.review) THEN "advance"
    ELSE IF nd.statuses THEN "statuses"
    ELSE "review"

\* after update_sheet_statuses returned
AfterStatuses(nd) == IF nd.review THEN "review" ELSE "advance"

\* `except Exception as e: logger.error(...); raise` around a writer
OnWriterErrorSwallowed == "advance"

OnWriterError == "failed"

Running == {"companies", "collect", "briefs", "statuses", "review", "advance"}

Ended == {"idle", "done", "failed", "crashed"}

NoNeed == [statuses |-> FALSE, review |-> FALSE]

NoPending == [valid |-> FALSE, ids |-> <<>>]

NoRes == [marker |-> None, listing |-> <<>>, ps |-> 1, ids |-> <<>>,
          head_id |-> EmptyStr, has_more |-> FALSE, seen_marker |-> FALSE,
          prev |-> NoPending, arrivedBefore |-> 0, getFault |-> FALSE]

\* ------------------------------------------------- the pointer store's keys
\* cfg["GMAIL_POINTER_KEY"] and one key some other component keeps
Keys == {"pointer", "other"}

NoCall == [op |-> "none"]

ApiIdle ==
    /\ kv = [k \in Keys |-> None]
    /\ call = NoCall

NoReq == [mode |-> "none"]

NoOutcome == [done |-> FALSE]

FetchIdle ==
    /\ req = NoReq
    /\ fpc = "idle"
    /\ tasks = <<>>
    /\ sem = 0
    /\ results = <<>>
    /\ finished = <<>>
    /\ ret = <<>>
    /\ outcome = NoOutcome

Free == 0

Threads == 1..MaxThreads

\* a thread outside acquire
IdleThread == [pc |-> "idle"]

LimiterIdle ==
    /\ clock = 0
    /\ rl = [max_calls |-> 1, time_window |-> 1]
    /\ call_times = <<>>
    /\ recorded = <<>>
    /\ lock = Free
    /\ th = [t \in Threads |-> IdleThread]
    /\ issued = <<>>
    /\ tally = [started |-> 0, granted |-> 0, denied |-> 0, pure |-> TRUE]

\* nothing is there: no text, no email, no company at hand
NoText == [pc |-> "idle"]

\* no text is being normalised, filtered or classified
TextIdle ==
    /\ norm = NoText
    /\ flt = NoText
    /\ cls = NoText

\* the service at rest: no scheduler, no health server, no cycle
NoSvc == [pc |-> "idle"]

SvcIdle ==
    /\ sch = NoSvc
    /\ hs = NoSvc
    /\ cyc = NoSvc

ExtIdle == ApiIdle /\ FetchIdle /\ LimiterIdle /\ TextIdle /\ SvcIdle

\* ------------------------------------------------------------ the pipeline
Init ==
    /\ ExtIdle
    /\ \E S \in SUBSET (1..MaxInit) : mailbox = SortDesc(S)
    /\ nextId = MaxInit + 1
    /\ arrivals = 0
    /\ store \in {None} \cup (1..MaxInit)
    /\ limit \in 1..MaxLimit
    /\ pc = "idle"
    /\ runner = "run"
    /\ companies = FALSE
    /\ collected = FALSE
    /\ res = NoRes
    /\ need = NoNeed
    /\ writers = [statuses |-> "not_called", review |-> "not_called"]
    /\ advanced = FALSE
    /\ startStore = store
    /\ pending = NoPending
    /\ arrivedSince = 0
    /\ delivered = {}
    /\ base = store

\* a message arrives in the mailbox (at any time, also during a cycle)
Arrive ==
    /\ arrivals < MaxArrivals
    /\ mailbox' = <<nextId>> \o mailbox
    /\ nextId' = nextId + 1
    /\ arrivals' = arrivals + 1
    /\ arrivedSince' = arrivedSince + 1
    /\ UNCHANGED <<store, limit, pc, runner, companies, collected, res, need,
                   writers, advanced, startStore, pending, delivered, base, ext>>

\* main() / main_async() / pipeline_func() is entered
Start ==
    /\ pc \in Ended
    /\ \E r \in Runners : runner' = r
    /\ pc' = "companies"
    /\ companies' = FALSE
    /\ collected' = FALSE
    /\ need' = NoNeed
    /\ writers' = [statuses |-> "not_called", review |-> "not_called"]
    /\ advanced' = FALSE
    /\ startStore' = store
    /\ res' = NoRes
    /\ pending' = IF collected
                  THEN IF res.marker # None /\ res.ids # <<>> /\ ~advanced
                       THEN [valid |-> TRUE, ids |-> res.ids]
                       ELSE NoPending
                  ELSE pending
    /\ UNCHANGED <<mailbox, nextId, arrivals, store, limit, arrivedSince,
                   delivered, base, ext>>

\* sheets.fetch_pending_companies returns
FetchCompanies ==
    /\ pc = "companies"
    /\ \E c \in BOOLEAN :
          /\ companies' = c
          /\ pc' = AfterCompanies(runner, c)
    /\ UNCHANGED <<mailbox, nextId, arrivals, store, limit, runner, collected,
                   res, need, writers, advanced, startStore, pending,
                   arrivedSince, delivered, base, ext>>

\* sheets.fetch_pending_companies raises
FetchCompaniesRaise ==
    /\ pc = "companies"
    /\ pc' = "failed"
    /\ UNCHANGED <<mailbox, nextId, arrivals, store, limit, runner, companies,
                   collected, res, need, writers, advanced, startStore,
                   pending, arrivedSince, delivered, base, ext>>

\* gmail.collect_new_messages_once returns
Collect ==
    /\ pc = "collect"
    /\ \E ps \in 1..MaxPage :
          LET c == CollectOnce(runner, store, mailbox, limit, ps) IN
          /\ store' = c.store
          /\ res' = [marker |-> store, listing |-> mailbox, ps |-> ps,
                     ids |-> c.ids, head_id |-> c.head_id,
                     has_more |-> c.has_more, seen_marker |-> c.seen_marker,
                     prev |-> pending,
                     arrivedBefore |-> IF pending.valid THEN arrivedSince ELSE 0,
                     getFault |-> FALSE]
          /\ pc' = AfterCollect(c.ids)
          /\ delivered' = delivered \cup Range(c.ids)
    /\ collected' = TRUE
    /\ arrivedSince' = 0
    /\ pending' = NoPending
    /\ UNCHANGED <<mailbox, nextId, arrivals, limit, runner, companies, need,
                   writers, advanced, startStore, base, ext>>

\* RedisKVStorage.get: the value, or None when the Redis client raises
RedisGet(st, fault) == IF fault THEN None ELSE st

\* gmail.collect_new_messages_once returns although the Redis client raised
\* inside storage.get: get returned None, the listing ran without a marker
\* and the bootstrap write reached the store
CollectGetFault ==
    /\ pc = "collect"
    /\ \E ps \in 1..MaxPage :
          LET marker == RedisGet(store, TRUE)
              c == CollectOnce(runner, marker, mailbox, limit, ps) IN
          /\ store' = IF c.store # marker THEN c.store ELSE store
          /\ res' = [marker |-> marker, listing |-> mailbox, ps |-> ps,
                     ids |-> c.ids, head_id |-> c.head_id,
                     has_more |-> c.has_more, seen_marker |-> c.seen_marker,
                     prev |-> pending,
                     arrivedBefore |-> IF pending.valid THEN arrivedSince ELSE 0,
                     getFault |-> TRUE]
          /\ pc' = AfterCollect(c.ids)
          /\ delivered' = delivered \cup Range(c.ids)
    /\ collected' = TRUE
    /\ arrivedSince' = 0
    /\ pending' = NoPending
    /\ UNCHANGED <<mailbox, nextId, arrivals, limit, runner, companies, need,
                   writers, advanced, startStore, base, ext>>

\* a page listing exhausts its retries and _list_until_marker re-raises, or
\* the store raises: collect_new_messages_once raises before it stored anything
CollectRaise ==
    /\ pc = "collect"
    /\ pc' = "failed"
    /\ UNCHANGED <<mailbox, nextId, arrivals, store, limit, runner, companies,
                   collected, res, need, writers, advanced, startStore,
                   pending, arrivedSince, delivered, base, ext>>

\* get_message_briefs, filter_by_company and classify_latest: none raises,
\* a message that cannot be fetched is skipped
Process ==
    /\ pc = "briefs"
    /\ \E briefsEmpty \in BOOLEAN, relatedEmpty \in BOOLEAN,
          nd \in {n \in [statuses : BOOLEAN, review : BOOLEAN] :
                     n.statuses \/ n.review} :
          LET nxt == AfterClassify(runner, companies, briefsEmpty,
                                   relatedEmpty, nd)
          IN  /\ pc' = nxt
              /\ need' = IF nxt = "advance" THEN NoNeed ELSE nd
    /\ UNCHANGED <<mailbox, nextId, arrivals, store, limit, runner, companies,
                   collected, res, writers, advanced, startStore, pending,
                   arrivedSince, delivered, base, ext>>

\* update_sheet_statuses returns
Statuses ==
    /\ pc = "statuses"
    /\ writers' = [writers EXCEPT !.statuses = "returned"]
    /\ pc' = AfterStatuses(need)
    /\ UNCHANGED <<mailbox, nextId, arrivals, store, limit, runner, companies,
                   collected, res, need, advanced, startStore, pending,
                   arrivedSince, delivered, base, ext>>

\* update_sheet_statuses raises
StatusesRaise ==
    /\ pc = "statuses"
    /\ writers' = [writers EXCEPT !.statuses = "raised"]
    /\ pc' = OnWriterError
    /\ UNCHANGED <<mailbox, nextId, arrivals, store, limit, runner, companies,
                   collected, res, need, advanced, startStore, pending,
                   arrivedSince, delivered, base, ext>>

\* update_sheet_review returns
Review ==
    /\ pc = "review"
    /\ writers' = [writers EXCEPT !.review = "returned"]
    /\ pc' = "advance"
    /\ UNCHANGED <<mailbox, nextId, arrivals, store, limit, runner, companies,
                   collected, res, need, advanced, startStore, pending,
                   arrivedSince, delivered, base, ext>>

\* update_sheet_review raises
ReviewRaise ==
    /\ pc = "review"
    /\ writers' = [writers EXCEPT !.review = "raised"]
    /\ pc' = OnWriterError
    /\ UNCHANGED <<mailbox, nextId, arrivals, store, limit, runner, companies,
                   collected, res, need, advanced, startStore, pending,
                   arrivedSince, delivered, base, ext>>

\* gmail.advance_pointer_after_processing(storage, head_id), then return
Advance ==
    /\ pc = "advance"
    /\ store' = AdvancePointer(store, res.head_id)
    /\ advanced' = TRUE
    /\ pc' = "done"
    /\ UNCHANGED <<mailbox, nextId, arrivals, limit, runner, companies,
                   collected, res, need, writers, startStore, pending,
                   arrivedSince, delivered, base, ext>>

\* storage.set raises inside advance_pointer_after_processing (the Redis
\* store re-raises a failed SET): nothing is stored and the cycle fails
AdvanceRaise ==
    /\ pc = "advance"
    /\ advanced' = TRUE
    /\ pc' = "failed"
    /\ UNCHANGED <<mailbox, nextId, arrivals, store, limit, runner, companies,
                   collected, res, need, writers, startStore, pending,
                   arrivedSince, delivered, base, ext>>

\* the process is killed in the middle of a cycle; the store is durable
Crash ==
    /\ pc \in Running
    /\ pc' = "crashed"
    /\ UNCHANGED <<mailbox, nextId, arrivals, store, limit, runner, companies,
                   collected, res, need, writers, advanced, startStore,
                   pending, arrivedSince, delivered, base, ext>>

Next ==
    \/ Arrive
    \/ Start
    \/ FetchCompanies
    \/ FetchCompaniesRaise
    \/ Collect
    \/ CollectRaise
    \/ Process
    \/ Statuses
    \/ StatusesRaise
    \/ Review
    \/ ReviewRaise
    \/ Advance
    \/ AdvanceRaise
    \/ Crash

Spec == Init /\ [][Next]_vars

\* the pipeline over a Redis store whose reads can fail
NextFault ==
    \/ Next
    \/ CollectGetFault

SpecFault == Init /\ [][NextFault]_vars

\* the pipeline at rest, while a component is exercised on its own
MainIdle ==
    /\ mailbox = <<>>
    /\ nextId = MaxInit + 1
    /\ arrivals = 0
    /\ store = None
    /\ limit = 1
    /\ pc = "idle"
    /\ runner = "run"
    /\ companies = FALSE
    /\ collected = FALSE
    /\ res = NoRes
    /\ need = NoNeed
    /\ writers = [statuses |-> "not_called", review |-> "not_called"]
    /\ advanced = FALSE
    /\ startStore = None
    /\ pending = NoPending
    /\ arrivedSince = 0
    /\ delivered = {}
    /\ base = None

main == <<mailbox, nextId, arrivals, store, limit, pc, runner, companies,
          collected, res, need, writers, advanced, startStore, pending,
          arrivedSince, delivered, base>>

\* ------------------------------------- advance_pointer_after_processing
\* InMemoryEmailStorage.set / RedisKVStorage.set, written to every key
StorageSetAll(kvs, key, value) == [k \in DOMAIN kvs |-> value]

\* InMemoryEmailStorage.set / RedisKVStorage.set
StorageSet(kvs, key, value) == [kvs EXCEPT ![key] = value]

\* GmailClient.advance_pointer_after_processing on the keyed store
AdvancePointerSync(kvs, key, head_id) ==
    IF head_id # EmptyStr THEN StorageSet(kvs, key, head_id) ELSE kvs

\* AsyncGmailClient.advance_pointer_after_processing on the keyed store
AdvancePointerAsync(kvs, key, head_id) ==
    IF head_id # EmptyStr THEN StorageSet(kvs, key, head_id) ELSE kvs

Clients == {"sync", "async"}

InitApi ==
    /\ MainIdle
    /\ SvcIdle
    /\ TextIdle
    /\ FetchIdle
    /\ LimiterIdle
    /\ kv \in [Keys -> {None} \cup (1..MaxInit)]
    /\ call = NoCall

\* the page calls _list_until_marker makes: for each call of
\* _list_messages_page, the IDs collected when the call is made
RECURSIVE ListLoopPages(_, _, _, _, _, _)
ListLoopPages(listing, lim, marker_id, ps, acc, page_token) ==
    IF ~(Len(acc) < lim) THEN <<>>
    ELSE LET remaining == Max(1, lim - Len(acc))
             resp == ListMessagesPage(listing, Min(MaxResultsCap, remaining),
                                      page_token, ps)
         IN  <<acc>> \o
             (IF resp.messages = <<>> THEN <<>>
              ELSE LET r == ScanPage(resp.messages, 1, acc, lim, marker_id) IN
                   IF r.seen_marker \/ Len(r.collected) >= lim THEN <<>>
                   ELSE IF resp.nextPageToken = NoToken THEN <<>>
                   ELSE ListLoopPages(listing, lim, marker_id, ps, r.collected,
                                      resp.nextPageToken))

\* the page calls of one collect_new_messages_once, in order: those of the
\* listing up to the marker, then those of the head probe when no ID was found
PageCalls(st, listing, lim, ps) ==
    LET first == ListLoopPages(listing, lim, st, ps, <<>>, NoToken)
        probe == IF ListUntilMarker(listing, lim, st, ps).collected = <<>>
                 THEN ListLoopPages(listing, 1, None, ps, <<>>, NoToken)
                 ELSE <<>>
    IN  [i \in 1..Len(first) |-> [phase |-> "list", partial |-> first[i]]]
        \o [i \in 1..Len(probe) |-> [phase |-> "probe", partial |-> probe[i]]]

\* the stored value when a page call raised, had the IDs collected so far
\* been used for the bootstrap write
StoreOnListFailurePartial(st, marker, partial) ==
    BootstrapStore(st, marker, IF partial # <<>> THEN partial[1] ELSE EmptyStr)

\* the stored value when _list_messages_page raised out of
\* collect_new_messages_once: the raise leaves before any storage.set
StoreOnListFailure(st, marker, partial) == st

\* some caller runs collect_new_messages_once(storage, pointer_key, limit);
\* page call k raises once its retries are used up (k = 0: none raises)
ApiCollect ==
    /\ call = NoCall
    /\ \E c \in Clients, S \in SUBSET (1..MaxInit), lim \in 1..MaxLimit,
          ps \in 1..MaxPage :
          LET listing == SortDesc(S)
              st      == kv["pointer"]
              calls   == PageCalls(st, listing, lim, ps)
              r       == IF c = "sync" THEN CollectOnceSync(st, listing, lim, ps)
                                       ELSE CollectOnceAsync(st, listing, lim, ps)
          IN  \E k \in 0..Len(calls) :
                 IF k = 0
                 THEN /\ kv' = IF r.store # st
                               THEN StorageSet(kv, "pointer", r.store) ELSE kv
                      /\ call' = [op |-> "collect", client |-> c, before |-> kv,
                                  listing |-> listing, limit |-> lim,
                                  raised |-> FALSE, failed |-> 0,
                                  phase |-> "none", partial |-> <<>>,
                                  returned |-> TRUE, ids |-> r.ids]
                 ELSE LET st2 == StoreOnListFailure(st, st, calls[k].partial) IN
                      /\ kv' = IF st2 # st
                               THEN StorageSet(kv, "pointer", st2) ELSE kv
                      /\ call' = [op |-> "collect", client |-> c, before |-> kv,
                                  listing |-> listing, limit |-> lim,
                                  raised |-> TRUE, failed |-> k,
                                  phase |-> calls[k].phase,
                                  partial |-> calls[k].partial,
                                  returned |-> FALSE, ids |-> <<>>]
    /\ UNCHANGED <<main, svcVars, textVars, fetchVars, limiterVars>>

\* some caller runs advance_pointer_after_processing(pointer_key, head_id)
ApiAdvance ==
    /\ call = NoCall
    /\ \E c \in Clients, key \in Keys, head_id \in {EmptyStr} \cup (1..MaxInit) :
          /\ kv' = IF c = "sync" THEN AdvancePointerSync(kv, key, head_id)
                                 ELSE AdvancePointerAsync(kv, key, head_id)
          /\ call' = [op |-> "advance", client |-> c, key |-> key,
                      head_id |-> head_id, before |-> kv]
    /\ UNCHANGED <<main, svcVars, textVars, fetchVars, limiterVars>>

NextApi ==
    \/ ApiAdvance
    \/ ApiCollect

SpecApi == InitApi /\ [][NextApi]_vars

\* -------------------------------------------------- get_message_briefs
\* `ids[:max_batch_size] if len(ids) > max_batch_size else ids`
ProcessedIds(ids, max_batch_size) ==
    IF Len(ids) > max_batch_size THEN SubSeq(ids, 1, max_batch_size) ELSE ids

\* what the sync loop does when a message's fetch or extraction raised
AfterFetchFailureAbort == "abort"

AfterFetchFailure == "continue"

\* the `for mid in processed_ids` loop of GmailClient.get_message_briefs
RECURSIVE SyncLoop(_, _, _, _)
SyncLoop(processed, ok, i, out) ==
    IF i > Len(processed) THEN out
    ELSE IF ok[processed[i]]
         THEN SyncLoop(processed, ok, i + 1, Append(out, processed[i]))
         ELSE IF AfterFetchFailure = "continue"
              THEN SyncLoop(processed, ok, i + 1, out)
              ELSE out

\* GmailClient.get_message_briefs
SyncBriefs(ids, ok, max_batch_size) ==
    SyncLoop(ProcessedIds(ids, max_batch_size), ok, 1, <<>>)

\* _process_single_message: the summary, or None when anything raised
ProcessSingleMessage(mid, ok) == IF ok[mid] THEN mid ELSE None

\* leaving `async with semaphore` only when the fetch succeeded
SemReleaseOnSuccess(permits, result) ==
    IF result # None THEN permits + 1 ELSE permits

\* leaving `async with semaphore`, whatever the body returned
SemRelease(permits, result) == permits + 1

\* the results taken in the order the tasks completed
GatherAsCompleted(res_, order) == [k \in 1..Len(order) |-> res_[order[k]]]

\* asyncio.gather(*tasks, return_exceptions=True): the results in task order
Gather(res_, order) == res_

\* `for result in results`: None results are left out
RECURSIVE FilterResults(_, _, _)
FilterResults(rs, i, out) ==
    IF i > Len(rs) THEN out
    ELSE FilterResults(rs, i + 1,
                       IF rs[i] # None THEN Append(out, rs[i]) ELSE out)

\* filter_by_company: company -> the summaries that mention it, in order;
\* comp[m] is the company message m matches, 0 when none or skipped
FilterByCompany(briefs, comp) ==
    LET found == {comp[briefs[i]] : i \in 1..Len(briefs)} \ {0}
    IN  [c \in found |-> SelectSeq(briefs, LAMBDA m : comp[m] = c)]

\* max(emails, key=_ts): the first summary with the largest internalDate
Latest(emails, ts) ==
    LET top == CHOOSE t \in {ts[emails[i]] : i \in 1..Len(emails)} :
                   \A j \in 1..Len(emails) : ts[emails[j]] <= t
        i0  == CHOOSE i \in 1..Len(emails) :
                   /\ ts[emails[i]] = top
                   /\ \A j \in 1..(i - 1) : ts[emails[j]] # top
    IN  emails[i0]

Buckets == <<"approve", "decline", "review">>

\* internalDate values: two of them give every pattern of which summaries
\* share the newest date, and that pattern is all max() depends on
Dates == 1..2

\* the bucket the first-hit rule gives a message; the head text is the
\* message's own, so the bucket is a function of the message
BucketOf(m) == Buckets[(m % 3) + 1]

\* classify_latest
ClassifyLatest(filtered, ts) ==
    [b \in Range(Buckets) |->
        LET cs == {c \in DOMAIN filtered :
                      BucketOf(Latest(filtered[c], ts)) = b}
        IN  [c \in cs |-> <<Latest(filtered[c], ts)>>]]

\* main / main_async from the summaries on, writers succeeding: the
\* summaries, the outcome buckets and the marker after advance
CycleOutcome(briefs, ids, ts, comp) ==
    [done    |-> TRUE,
     briefs  |-> briefs,
     buckets |-> ClassifyLatest(FilterByCompany(briefs, comp), ts),
     marker  |-> AdvancePointer(None, ids[1]),
     ts      |-> ts,
     comp    |-> comp]

\* newest-first IDs n, n-1, .., 1
DescIds(n) == [i \in 1..n |-> n + 1 - i]

InitFetch ==
    /\ MainIdle
    /\ SvcIdle
    /\ TextIdle
    /\ ApiIdle
    /\ LimiterIdle
    /\ \E n \in 1..MaxIds, m \in Clients, cap \in 1..MaxBatch,
          mc \in 1..MaxConcurrent :
          \E ok \in [1..n -> BOOLEAN] :
             req = [mode |-> m, ids |-> DescIds(n), ok |-> ok,
                    max_batch_size |-> cap, max_concurrent |-> mc]
    /\ fpc = "idle"
    /\ tasks = <<>>
    /\ sem = 0
    /\ results = <<>>
    /\ finished = <<>>
    /\ ret = <<>>
    /\ outcome = NoOutcome

\* GmailClient.get_message_briefs(ids) runs and returns
BriefsSync ==
    /\ fpc = "idle"
    /\ req.mode = "sync"
    /\ ret' = SyncBriefs(req.ids, req.ok, req.max_batch_size)
    /\ fpc' = "returned"
    /\ UNCHANGED <<main, svcVars, textVars, apiVars, limiterVars, req, tasks, sem, results,
                   finished, outcome>>

\* AsyncGmailClient.get_message_briefs(ids) creates the semaphore and the tasks
BriefsAsyncStart ==
    /\ fpc = "idle"
    /\ req.mode = "async"
    /\ LET processed == ProcessedIds(req.ids, req.max_batch_size) IN
          /\ tasks' = [i \in 1..Len(processed) |-> "waiting"]
          /\ results' = [i \in 1..Len(processed) |-> None]
    /\ sem' = req.max_concurrent
    /\ fpc' = "gather"
    /\ UNCHANGED <<main, svcVars, textVars, apiVars, limiterVars, req, finished, ret, outcome>>

\* task i enters `async with semaphore`
TaskEnter ==
    /\ fpc = "gather"
    /\ \E i \in 1..Len(tasks) :
          /\ tasks[i] = "waiting"
          /\ sem > 0
          /\ sem' = sem - 1
          /\ tasks' = [tasks EXCEPT ![i] = "inside"]
    /\ UNCHANGED <<main, svcVars, textVars, apiVars, limiterVars, req, fpc, results, finished,
                   ret, outcome>>

\* task i's _process_single_message returns and the task leaves the semaphore
TaskLeave ==
    /\ fpc = "gather"
    /\ \E i \in 1..Len(tasks) :
          LET r == ProcessSingleMessage(
                       ProcessedIds(req.ids, req.max_batch_size)[i], req.ok) IN
          /\ tasks[i] = "inside"
          /\ results' = [results EXCEPT ![i] = r]
          /\ sem' = SemRelease(sem, r)
          /\ tasks' = [tasks EXCEPT ![i] = "done"]
          /\ finished' = Append(finished, i)
    /\ UNCHANGED <<main, svcVars, textVars, apiVars, limiterVars, req, fpc, ret, outcome>>

\* gather returns once every task is done; the results are filtered
GatherReturn ==
    /\ fpc = "gather"
    /\ \A i \in 1..Len(tasks) : tasks[i] = "done"
    /\ ret' = FilterResults(Gather(results, finished), 1, <<>>)
    /\ fpc' = "returned"
    /\ UNCHANGED <<main, svcVars, textVars, apiVars, limiterVars, req, tasks, sem, results,
                   finished, outcome>>

\* the cycle filters, classifies, writes and advances; ts[m] and comp[m] are
\* the internalDate of summary m and the company it matches
Classify ==
    /\ fpc = "returned"
    /\ \E ts \in [Range(ret) -> Dates],
          comp \in [Range(ret) -> 0..1] :
          outcome' = CycleOutcome(ret, req.ids, ts, comp)
    /\ fpc' = "classified"
    /\ UNCHANGED <<main, svcVars, textVars, apiVars, limiterVars, req, tasks, sem, results,
                   finished, ret>>

\* one get_message_briefs call
NextBriefs ==
    \/ BriefsSync
    \/ BriefsAsyncStart
    \/ TaskEnter
    \/ TaskLeave
    \/ GatherReturn

NextFetch ==
    \/ NextBriefs
    \/ Classify

SpecFetch == InitFetch /\ [][NextFetch]_vars

\* one get_message_briefs call in which every started fetch returns or
\* raises in the end and the event loop runs every task that is ready
SpecFetchFair == InitFetch /\ [][NextBriefs]_vars /\ WF_vars(NextBriefs)

\* ------------------------------------------------------- the rate limiter
\* RateLimiter.acquire and AsyncRateLimiter.acquire are the same code over
\* threading.Lock / time.sleep and asyncio.Lock / asyncio.sleep.
NoTimeout == -1     \* timeout=None
Buffer == 1         \* the 0.1 s added to the wait time: one tick

\* no call time is ever dropped
PruneLeftNever(times, now, window) == times

\* `while call_times and (now - call_times[0]) > time_window: popleft()`
RECURSIVE PruneLeft(_, _, _)
PruneLeft(times, now, window) ==
    IF times # <<>> /\ (now - times[1]) > window
    THEN PruneLeft(Tail(times), now, window)
    ELSE times

\* entering `with self._lock` without excluding anybody
LockFreeAlways(lk) == TRUE

\* `with self._lock` can be entered
LockFree(lk) == lk = Free

\* the lock kept through the sleep
LockAfterWaitHeld(t) == t

\* the lock once the `with` block is left, before the sleep
LockAfterWait(t) == Free

\* the ways acquire is called: by a client before a remote call
\* (acquire(), blocking, no timeout), acquire(blocking=False), and
\* acquire(blocking=True, timeout=d)
CallKinds ==
    {[client |-> TRUE, blocking |-> TRUE, timeout |-> NoTimeout],
     [client |-> FALSE, blocking |-> FALSE, timeout |-> NoTimeout]}
    \cup {[client |-> FALSE, blocking |-> TRUE, timeout |-> d] :
              d \in 1..MaxWindow}

\* acquire has returned `result` to its caller; via tells which return
\* statement it was: "granted", "full" or "timeout"
AcquireReturned(result, client, via) ==
    [pc |-> "returned", result |-> result, client |-> client, via |-> via]

\* a timeout that never makes acquire give up
TimedOutNever(timeout, wait_time) == FALSE

\* `if timeout is not None and wait_time > timeout`
TimedOut(timeout, wait_time) == timeout # NoTimeout /\ wait_time > timeout

\* the tally counts results only while every call so far was
\* acquire(blocking=False) and the first window is not over
Counted(tl, now) ==
    IF tl.pure /\ now <= rl.time_window THEN tl
    ELSE [tl EXCEPT !.granted = 0, !.denied = 0, !.pure = FALSE]

InitLimiter ==
    /\ MainIdle
    /\ SvcIdle
    /\ TextIdle
    /\ ApiIdle
    /\ FetchIdle
    /\ clock = 0
    /\ \E mc \in 1..MaxCalls, w \in 1..MaxWindow :
          rl = [max_calls |-> mc, time_window |-> w]
    /\ call_times = <<>>
    /\ recorded = <<>>
    /\ lock = Free
    /\ th = [t \in Threads |-> IdleThread]
    /\ issued = <<>>
    /\ tally = [started |-> 0, granted |-> 0, denied |-> 0, pure |-> TRUE]

\* acquire called directly, with no remote call behind it: acquire(),
\* acquire(blocking=False) and acquire(blocking=True, timeout=d)
DirectKinds ==
    {[client |-> FALSE, blocking |-> TRUE, timeout |-> NoTimeout]}
    \cup {k \in CallKinds : ~k.client}

\* thread t calls acquire in one of the given ways: `now = time.time()`;
\* idle threads are alike, the one with the lowest number makes the call
Acquire(kinds) ==
    /\ tally.started < MaxAttempts
    /\ \E t \in Threads, k \in kinds :
          /\ th[t].pc = "idle"
          /\ \A u \in 1..(t - 1) : th[u].pc # "idle"
          /\ th' = [th EXCEPT ![t] =
                       [pc |-> "want_lock", now |-> clock,
                        blocking |-> k.blocking, timeout |-> k.timeout,
                        client |-> k.client]]
          /\ tally' = Counted([tally EXCEPT !.started = @ + 1,
                                            !.pure = @ /\ ~k.blocking], clock)
    /\ UNCHANGED <<main, svcVars, textVars, apiVars, fetchVars, clock, rl, call_times,
                   recorded, lock, issued>>

\* a client or a direct caller calls acquire
AcquireCall == Acquire(CallKinds)

\* a direct caller calls acquire
AcquireDirect == Acquire(DirectKinds)

\* thread t enters `with self._lock`
LockEnter ==
    /\ \E t \in Threads :
          /\ th[t].pc = "want_lock"
          /\ LockFree(lock)
          /\ lock' = t
          /\ th' = [th EXCEPT ![t].pc = "locked"]
    /\ UNCHANGED <<main, svcVars, textVars, apiVars, fetchVars, clock, rl, call_times, recorded,
                   issued,
                   tally>>

\* thread t drops the old call times and looks for a free slot; of its
\* locals only those still read are kept
Check ==
    /\ \E t \in Threads :
          LET pruned == PruneLeft(call_times, th[t].now, rl.time_window) IN
          /\ th[t].pc = "locked"
          /\ call_times' = pruned
          /\ recorded' = SubSeq(recorded, Len(call_times) - Len(pruned) + 1,
                                Len(recorded))
          /\ th' = [th EXCEPT ![t] =
                       IF Len(pruned) < rl.max_calls
                       THEN [pc |-> "record", now |-> th[t].now,
                             client |-> th[t].client]
                       ELSE IF ~th[t].blocking
                       THEN [pc |-> "deny", client |-> th[t].client]
                       ELSE [pc |-> "wait", now |-> th[t].now,
                             timeout |-> th[t].timeout,
                             client |-> th[t].client]]
    /\ UNCHANGED <<main, svcVars, textVars, apiVars, fetchVars, clock, rl, lock, issued, tally>>

\* `self.call_times.append(now); return True`
Record ==
    /\ \E t \in Threads :
          /\ th[t].pc = "record"
          /\ call_times' = Append(call_times, th[t].now)
          /\ recorded' = Append(recorded, clock)
          /\ lock' = Free
          /\ th' = [th EXCEPT ![t] = AcquireReturned(TRUE, th[t].client, "granted")]
    /\ tally' = Counted([tally EXCEPT !.granted = @ + 1], clock)
    /\ UNCHANGED <<main, svcVars, textVars, apiVars, fetchVars, clock, rl, issued>>

\* `if not blocking: return False`
Deny ==
    /\ \E t \in Threads :
          /\ th[t].pc = "deny"
          /\ lock' = Free
          /\ th' = [th EXCEPT ![t] =
                       AcquireReturned(FALSE, th[t].client, "full")]
    /\ tally' = Counted([tally EXCEPT !.denied = @ + 1], clock)
    /\ UNCHANGED <<main, svcVars, textVars, apiVars, fetchVars, clock, rl, call_times, recorded,
                   issued>>

\* thread t computes wait_time, leaves the `with` block, and either gives
\* up (wait_time > timeout) or starts to sleep
Wait ==
    /\ \E t \in Threads :
          /\ th[t].pc = "wait"
          /\ call_times # <<>>
          /\ LET oldest_call == call_times[1]
                 wait_time == rl.time_window - (th[t].now - oldest_call) + Buffer
             IN  IF TimedOut(th[t].timeout, wait_time)
                 THEN /\ th' = [th EXCEPT ![t] =
                               AcquireReturned(FALSE, th[t].client, "timeout")]
                      /\ tally' = Counted([tally EXCEPT !.denied = @ + 1], clock)
                      /\ lock' = Free
                 ELSE /\ th' = [th EXCEPT ![t] =
                                    [pc |-> "sleeping",
                                     wake |-> clock + wait_time,
                                     client |-> th[t].client]]
                      /\ tally' = tally
                      /\ lock' = LockAfterWait(t)
    /\ UNCHANGED <<main, svcVars, textVars, apiVars, fetchVars, clock, rl, call_times, recorded,
                   issued>>

\* the sleep is over: `return self.acquire(blocking=False)`
Wake ==
    /\ \E t \in Threads :
          /\ th[t].pc = "sleeping"
          /\ clock >= th[t].wake
          /\ th' = [th EXCEPT ![t] =
                       [pc |-> "want_lock", now |-> clock, blocking |-> FALSE,
                        timeout |-> NoTimeout, client |-> th[t].client]]
    /\ UNCHANGED <<main, svcVars, textVars, apiVars, fetchVars, clock, rl, call_times, recorded,
                   lock,
                   issued, tally>>

\* _fetch_message / _list_messages_page: acquire has returned, its result
\* is dropped, and the remote call goes out
IssueCall ==
    /\ \E t \in Threads :
          /\ th[t].pc = "returned"
          /\ th[t].client
          /\ issued' = Append(issued, [at |-> clock, granted |-> th[t].result])
          /\ th' = [th EXCEPT ![t] = IdleThread]
    /\ UNCHANGED <<main, svcVars, textVars, apiVars, fetchVars, clock, rl, call_times, recorded,
                   lock,
                   tally>>

\* acquire returns to a caller that makes no remote call
Return ==
    /\ \E t \in Threads :
          /\ th[t].pc = "returned"
          /\ ~th[t].client
          /\ th' = [th EXCEPT ![t] = IdleThread]
    /\ UNCHANGED <<main, svcVars, textVars, apiVars, fetchVars, clock, rl, call_times, recorded,
                   lock,
                   issued, tally>>

\* time passes; remote calls fall out of the latest window
Tick ==
    /\ clock < MaxClock
    /\ clock' = clock + 1
    /\ issued' = SelectSeq(issued, LAMBDA c : clock + 1 - c.at < rl.time_window)
    /\ tally' = Counted(tally, clock + 1)
    /\ UNCHANGED <<main, svcVars, textVars, apiVars, fetchVars, rl, call_times, recorded, lock,
                   th>>

NextLimiter ==
    \/ AcquireCall
    \/ LockEnter
    \/ Check
    \/ Record
    \/ Deny
    \/ Wait
    \/ Wake
    \/ IssueCall
    \/ Return
    \/ Tick

SpecLimiter == InitLimiter /\ [][NextLimiter]_vars

\* the limiter with direct callers only
NextAcquire ==
    \/ AcquireDirect
    \/ LockEnter
    \/ Check
    \/ Record
    \/ Deny
    \/ Wait
    \/ Wake
    \/ Return
    \/ Tick

SpecAcquire == InitLimiter /\ [][NextAcquire]_vars

TypeOK ==
    /\ store \in {None} \cup (1..(MaxInit + MaxArrivals))
    /\ pc \in Running \cup Ended
    /\ Len(mailbox) <= MaxInit + MaxArrivals

\* ------------------------------------------------------------ properties
IndexOf(s, m) == CHOOSE i \in 1..Len(s) : s[i] = m

\* the marker is one of the first lim entries of the listing
MarkerWithin(listing, marker, lim) ==
    /\ Truthy(marker)
    /\ marker \in Range(listing)
    /\ IndexOf(listing, marker) <= lim

\* the IDs listed strictly before the marker; the whole listing when the
\* marker is absent or not listed
NewerThanMarker(listing, marker) ==
    IF marker \in Range(listing)
    THEN SubSeq(listing, 1, IndexOf(listing, marker) - 1)
    ELSE listing

\* C1: with a stored marker M listed within the first `limit` entries,
\* collectOnce (sync and async) returns exactly the IDs listed before M, in
\* listing order, headId is the newest ID, hasMore is false, M is not returned.
C1_StopAtMarker ==
    (collected /\ MarkerWithin(res.listing, res.marker, limit)) =>
        /\ res.ids = NewerThanMarker(res.listing, res.marker)
        /\ res.head_id = res.listing[1]
        /\ res.has_more = FALSE
        /\ res.marker \notin Range(res.ids)

C1_Witness ==
    /\ collected
    /\ runner = "run_async"
    /\ res.ps = 1
    /\ MarkerWithin(res.listing, res.marker, limit)
    /\ Len(res.ids) = 2
    /\ Len(res.listing) > 3

\* C2: whatever the marker, the paging and the limit, collectOnce returns at
\* most `limit` IDs; when more than `limit` messages are newer than the
\* marker it returns exactly the `limit` newest IDs.
C2_Bound ==
    collected =>
        /\ Len(res.ids) <= limit
        /\ Len(NewerThanMarker(res.listing, res.marker)) > limit
              => res.ids = SubSeq(res.listing, 1, limit)

C2_Witness ==
    /\ collected
    /\ res.marker \in Range(res.listing)
    /\ Len(NewerThanMarker(res.listing, res.marker)) > limit
    /\ limit = 2
    /\ res.ps = 1
    /\ Len(res.ids) = 2

\* C3: with no marker stored and a non-empty mailbox, collectOnce returns the
\* up-to-`limit` newest IDs, headId is the newest ID, hasMore is false, and
\* the store holds headId as soon as collectOnce has returned.
C3_Bootstrap ==
    (collected /\ res.marker = None /\ res.listing # <<>>) =>
        /\ res.ids = SubSeq(res.listing, 1, Min(limit, Len(res.listing)))
        /\ res.head_id = res.listing[1]
        /\ res.has_more = FALSE
        /\ store = res.head_id

C3_Witness ==
    /\ collected
    /\ pc = "briefs"
    /\ res.marker = None
    /\ Len(res.listing) > limit
    /\ store = res.listing[1]

\* listing stopped because the pages ran out: neither the limit nor the
\* marker ended it
PagesExhausted == ~res.seen_marker /\ Len(res.ids) < limit

\* C4 (as claimed): hasMore is true exactly when a marker existed, was not
\* encountered within `limit` IDs and the pages were not exhausted; hasMore
\* implies that a message newer than the marker was not returned.
C4_Claimed ==
    collected =>
        /\ res.has_more <=>
              (res.marker # None /\ ~res.seen_marker /\ ~PagesExhausted)
        /\ res.has_more =>
              \E m \in Range(NewerThanMarker(res.listing, res.marker)) :
                  m \notin Range(res.ids)

\* C4 (amended): hasMore is true exactly when a marker was stored and the
\* marker is not among the first `limit` entries of the listing, also when
\* the pages were exhausted or every newer message was returned.
C4_HasMore ==
    collected =>
        (res.has_more <=>
            (res.marker # None /\ ~MarkerWithin(res.listing, res.marker, limit)))

C4_Witness ==
    /\ collected
    /\ res.has_more
    /\ res.marker # None
    /\ res.marker \notin Range(res.listing)
    /\ res.ids = res.listing
    /\ Len(res.ids) < limit

\* C5 (as claimed): once a cycle finds nothing new above the marker, every
\* message then listed that is newer than the initially stored marker M has
\* been returned in the ID list of some cycle.
C5_Drained ==
    (/\ pc = "done"
     /\ collected
     /\ res.ids = <<>>
     /\ res.seen_marker
     /\ base \in Range(res.listing)) =>
        \A m \in Range(NewerThanMarker(res.listing, base)) : m \in delivered

\* collectOnce read no marker and returned IDs in this cycle
Bootstrapped == collected /\ res.marker = None /\ res.ids # <<>>

\* C6 (as claimed): a cycle that ends by raising leaves the value stored
\* under pointerKey (or its absence) as it was when the cycle started.
C6_Claimed == pc = "failed" => store = startStore

\* C6 (amended): a cycle that ends by raising leaves the stored value as it
\* was at the start, unless collectOnce read no marker and returned IDs in
\* that cycle; then the store holds that cycle's headId.
C6_FailKeepsMarker ==
    pc = "failed" =>
        store = IF Bootstrapped THEN res.head_id ELSE startStore

C6_Witness ==
    /\ pc = "failed"
    /\ writers.review = "raised"
    /\ res.marker # None
    /\ Len(res.ids) = 2
    /\ store = startStore

\* the latest cycle that collected read a marker, returned IDs and ended
\* without advance, and collectOnce has now returned again
Redelivery == collected /\ res.prev.valid

\* C7 (as claimed): after a cycle with a stored marker ended without advance,
\* the next collectOnce returns every ID of that cycle again, also when
\* messages arrived in between.
C7_Claimed == Redelivery => Range(res.prev.ids) \subseteq Range(res.ids)

\* C7 (amended): ... returns every ID of that cycle again provided the
\* messages arrived in between plus the IDs of that cycle number at most
\* `limit` (in particular when none arrived).
C7_Redelivered ==
    (Redelivery /\ res.arrivedBefore + Len(res.prev.ids) <= limit) =>
        Range(res.prev.ids) \subseteq Range(res.ids)

C7_Witness ==
    /\ Redelivery
    /\ res.arrivedBefore = 1
    /\ Len(res.prev.ids) = 2
    /\ limit = 3
    /\ Len(res.ids) = 3

\* C8: advance is called only after every writer the cycle invoked has
\* returned without raising; once a writer raised, advance is not called.
C8_AdvanceAfterWriters ==
    /\ (advanced \/ pc = "advance") =>
          /\ writers.statuses # "raised"
          /\ writers.review # "raised"
          /\ need.statuses => writers.statuses = "returned"
          /\ need.review => writers.review = "returned"
    /\ (writers.statuses = "raised" \/ writers.review = "raised") =>
          ~advanced /\ pc # "advance"

C8_Witness ==
    /\ advanced
    /\ runner = "service"
    /\ writers.statuses = "returned"
    /\ writers.review = "returned"

\* the step is advance(pointerKey, headId) with a non-empty headId
AdvanceStep ==
    /\ pc = "advance"
    /\ pc' = "done"
    /\ res.head_id # EmptyStr
    /\ store' = res.head_id

\* the step is collectOnce storing headId because it read no marker
BootstrapStep ==
    /\ pc = "collect"
    /\ store = None
    /\ res'.ids # <<>>
    /\ store' = res'.head_id

\* C9 (as claimed): every change of the stored marker is the effect of an
\* advance call with a non-empty headId and sets it to that headId.
C9_Claimed == [][store' # store => AdvanceStep]_vars

\* C9 (amended): every change of the stored marker is the effect of an
\* advance call with a non-empty headId, or of collectOnce storing headId
\* when it read no marker; the new value is that headId.
C9_OnlyAdvanceOrBootstrap ==
    [][store' # store => (AdvanceStep \/ BootstrapStep)]_vars

C9_Witness ==
    /\ pc = "done"
    /\ advanced
    /\ startStore # None
    /\ store # startStore
    /\ store = res.head_id

\* C10: while the stored marker is a message of the (append-only) mailbox,
\* it never moves to an older message.
C10_Monotonic ==
    [][(store \in Range(mailbox)) => (store' >= store)]_vars

C10_Witness ==
    /\ pc = "done"
    /\ advanced
    /\ startStore \in Range(mailbox)
    /\ store > startStore
    /\ arrivals = MaxArrivals

\* C11: advance(pointerKey, headId) with a non-empty headId leaves the store
\* holding headId under pointerKey whatever was there before; with an empty
\* headId it leaves the store as it was; no other key is ever changed.
C11_AdvanceFrame ==
    call.op = "advance" =>
        kv = [k \in Keys |->
                 IF k = call.key /\ call.head_id # EmptyStr
                 THEN call.head_id
                 ELSE call.before[k]]

\* an advance that overwrote a different stored marker next to another key,
C11_Witness ==
    /\ call.op = "advance"
    /\ call.head_id # EmptyStr
    /\ call.before["pointer"] \notin {None, call.head_id}
    /\ call.key = "pointer"
    /\ call.before["other"] \notin {None, call.head_id}
    /\ kv["pointer"] = call.head_id

\* a collect that read a marker and listed an empty mailbox
EmptyProbe ==
    /\ collected
    /\ res.marker # None
    /\ res.listing = <<>>

\* C12: when a marker exists and collectOnce finds no new IDs it probes the
\* newest ID; with an empty mailbox the returned headId is the existing
\* marker, in the sync and in the async client, so that a following
\* advance(headId) leaves the marker as it was.
C12_Claimed ==
    EmptyProbe =>
        /\ res.ids = <<>>
        /\ res.head_id = res.marker
        /\ AdvancePointer(store, res.head_id) = res.marker

\* C13: when the marker store cannot be read the cycle fails with a
\* propagated error; the collector never goes on as if no marker were
\* stored: no collect result, no bootstrap write on account of the fault.
C13_Claimed ==
    res.getFault =>
        /\ ~collected
        /\ store = startStore

\* C14: when listing a page fails for good (the first page, a later page or
\* the head probe) collectOnce raises: it returns no ID list, partial or
\* not, and the stored marker stays as it was, also on a first run.
C14_ListFailure ==
    (call.op = "collect" /\ call.raised) =>
        /\ ~call.returned
        /\ call.ids = <<>>
        /\ kv = call.before

\* a first run whose second page failed after the first page gave IDs
C14_Witness ==
    /\ call.op = "collect"
    /\ call.raised
    /\ call.before["pointer"] = None
    /\ call.phase = "list"
    /\ call.failed > 1
    /\ call.partial # <<>>
    /\ kv["pointer"] = None

\* a failed head probe, with a marker stored
C14_WitnessProbe ==
    /\ call.op = "collect"
    /\ call.raised
    /\ call.phase = "probe"
    /\ call.before["pointer"] # None

\* the summaries of the IDs among `ids` whose fetch and extraction succeed
Succeeding(ids) == SelectSeq(ids, LAMBDA m : req.ok[m])

Returned == fpc \in {"returned", "classified"}

C15_WitnessSync ==
    /\ fpc = "returned"
    /\ req.mode = "sync"
    /\ Len(req.ids) = 3
    /\ req.max_batch_size >= 3
    /\ req.ok[3] /\ ~req.ok[2] /\ req.ok[1]
    /\ ret = <<3, 1>>

Inside == {i \in 1..Len(tasks) : tasks[i] = "inside"}

AllDone == \A i \in 1..Len(tasks) : tasks[i] = "done"

\* C16: of one async get_message_briefs call at most max_concurrent fetch
\* tasks are inside the semaphore-guarded section at any moment, and every
\* task enters and leaves it in the end, a failing fetch included.
C16_Semaphore ==
    /\ [](Cardinality(Inside) <= req.max_concurrent)
    /\ ((fpc = "gather") ~> AllDone)

\* the section is full, one task waits for a permit a failed task gave back
C16_Witness ==
    /\ fpc = "gather"
    /\ Cardinality(Inside) = req.max_concurrent
    /\ \E i \in 1..Len(tasks) : tasks[i] = "waiting"
    /\ \E i \in 1..Len(tasks) : tasks[i] = "done" /\ results[i] = None

\* C17: the outcome of an async cycle does not depend on the order in which
\* the fetches complete: summaries, outcome buckets and final marker are
\* those of the sequential client on the same IDs and fetch outcomes.
C17_OrderIndependent ==
    (fpc = "classified" /\ req.mode = "async") =>
        outcome = CycleOutcome(
                      SyncBriefs(req.ids, req.ok, req.max_batch_size),
                      req.ids, outcome.ts, outcome.comp)

\* the tasks completed oldest first, and two summaries of one company tie
\* on internalDate while falling into different buckets
C17_Witness ==
    /\ fpc = "classified"
    /\ req.mode = "async"
    /\ finished = <<3, 2, 1>>
    /\ ret = <<3, 2, 1>>
    /\ outcome.comp[3] = 1 /\ outcome.comp[2] = 1
    /\ outcome.ts[3] = outcome.ts[2]
    /\ outcome.buckets[BucketOf(3)][1] = <<3>>

\* C18: the rate limiter bounds the outbound call rate; the bound rests on
\* the claim's second half, stated here: over all interleavings a remote
\* call (page listing or message fetch) is issued only after acquire
\* granted it a slot.
C18_Claimed == \A i \in 1..Len(issued) : issued[i].granted

\* a remote call that went out although acquire returned False, as one too
\* many within the window
UngrantedCall ==
    /\ Len(issued) > rl.max_calls
    /\ \E i \in 1..Len(issued) : ~issued[i].granted

\* C19: check-and-record is mutually exclusive: of the acquire(blocking=False)
\* calls made concurrently within one window exactly min(calls, max_calls)
\* return True and the others False, and call_times never holds more than
\* max_calls entries.
C19_CheckAndRecord ==
    /\ Len(call_times) <= rl.max_calls
    /\ (tally.pure /\ clock <= rl.time_window) =>
           tally.granted = Min(tally.granted + tally.denied, rl.max_calls)

\* more non-blocking calls than slots: one was granted, one denied, and a
\* third is being denied inside the lock
C19_Witness ==
    /\ tally.pure
    /\ clock <= rl.time_window
    /\ tally.granted = rl.max_calls
    /\ tally.denied >= 1
    /\ \E t \in Threads : th[t].pc = "deny" /\ lock = t

\* C20: a blocking acquire never sleeps while holding the lock: whenever a
\* caller waits for a slot the lock is not its own, so another caller can
\* go through check-and-record meanwhile.
C20_SleepWithoutLock ==
    \A t \in Threads :
        th[t].pc = "sleeping" =>
            /\ lock # t
            /\ \A u \in Threads :
                  th[u].pc = "want_lock" => (lock = Free \/ lock = u
                      \/ th[lock].pc \in {"locked", "record", "deny", "wait"})

\* one caller sleeps while another is inside check-and-record
C20_Witness ==
    \E t, u \in Threads :
        /\ th[t].pc = "sleeping"
        /\ th[u].pc = "record"
        /\ lock = u

\* C21: acquire(blocking=True) without a timeout waits for a slot and then
\* returns True: whatever the interleaving of blocking callers, such a call
\* never returns False.
C21_Claimed ==
    \A t \in Threads :
        (th[t].pc = "returned" /\ th[t].client) => th[t].result

\* the wait of a thread that is about to leave the `with` block
WaitTime(t) == rl.time_window - (th[t].now - call_times[1]) + Buffer

\* thread t takes its step out of "wait"
WaitStep(t) == th[t].pc = "wait" /\ th'[t].pc # "wait"

\* C22: acquire(blocking=True, timeout=d) on a full limiter whose wait
\* exceeds d returns False without sleeping and without recording a call;
\* a call with a timeout that does sleep sleeps no longer than the wait it
\* computed, which is at most d.
C22_Timeout ==
    [][\A t \in Threads :
          (WaitStep(t) /\ th[t].timeout # NoTimeout) =>
              IF WaitTime(t) > th[t].timeout
              THEN /\ th'[t].pc = "returned"
                   /\ ~th'[t].result
                   /\ call_times' = call_times
              ELSE /\ th'[t].pc = "sleeping"
                   /\ th'[t].wake = clock + WaitTime(t)
                   /\ th'[t].wake - clock <= th[t].timeout
                   /\ call_times' = call_times]_vars

\* a timed acquire was denied on a full limiter, nothing was recorded for it
C22_Witness ==
    \E t \in Threads :
        /\ th[t].pc = "returned"
        /\ th[t].via = "timeout"
        /\ ~th[t].result
        /\ Len(call_times) = rl.max_calls

\* thread t takes its step out of "locked": it pruned and looked for a slot
CheckStep(t) == th[t].pc = "locked" /\ th'[t].pc # "locked"

\* thread t's acquire returns False in this step
DeniedStep(t) ==
    /\ th[t].pc # "returned"
    /\ th'[t].pc = "returned"
    /\ ~th'[t].result

\* C23: slots come back when the window passes: once a caller's clock is
\* more than time_window past the moment a call was recorded, that call no
\* longer counts, so a caller is granted a slot exactly when fewer than
\* max_calls recorded calls are left, and always when every recorded call is
\* older than the window; a denied call consumes no slot.
C23_WindowRecovery ==
    [][\A t \in Threads :
          /\ CheckStep(t) =>
                /\ \A i \in 1..Len(recorded') :
                      th[t].now - recorded'[i] <= rl.time_window
                /\ (th'[t].pc = "record") <=> (Len(call_times') < rl.max_calls)
                /\ (\A i \in 1..Len(recorded) :
                       th[t].now - recorded[i] > rl.time_window)
                      => (call_times' = <<>> /\ th'[t].pc = "record")
          /\ DeniedStep(t) => call_times' = call_times]_vars

\* a caller was denied on a full limiter, and a later caller, after the
\* window, found every recorded call dropped and is being granted a slot
C23_Witness ==
    \E t, u \in Threads :
        /\ th[u].pc = "returned"
        /\ th[u].via = "full"
        /\ th[t].pc = "record"
        /\ call_times = <<>>
        /\ clock > rl.time_window


\* ------------------------------------------------------------ the normaliser
\* A text is a sequence of characters; a character is a one-letter string,
\* or the name of a character that is not ASCII ("en-dash", "rsquo", ...).
MaxLen == 3

Upper == {"A", "B", "C", "D", "O", "T", "P"}
Lower == {"a", "b", "c", "d", "e", "f", "i", "l", "n", "o", "p", "r", "s",
          "t", "v"}
Digits == {"1", "2"}
Whitespace == {" ", "tab"}

\* `\w` under re.UNICODE: letters, digits and the underscore
IsWord(c) == c \in Upper \cup Lower \cup Digits \cup {"_"}

\* `\s`
IsSpace(c) == c \in Whitespace

\* the case of a letter exchanged for the other one
CasefoldSwap(c) ==
    CASE c = "A" -> <<"a">>
      [] c = "a" -> <<"A">>
      [] OTHER -> <<c>>

\* str.casefold on one character: a capital becomes its small letter, the
\* sharp s becomes "ss", anything else stays
Casefold(c) ==
    CASE c = "A" -> <<"a">>
      [] c = "B" -> <<"b">>
      [] c = "C" -> <<"c">>
      [] c = "D" -> <<"d">>
      [] c = "O" -> <<"o">>
      [] c = "T" -> <<"t">>
      [] c = "P" -> <<"p">>
      [] c = "sharp-s" -> <<"s", "s">>
      [] OTHER -> <<c>>

\* `s = s.casefold()`
RECURSIVE CasefoldAll(_)
CasefoldAll(s) ==
    IF s = <<>> THEN <<>> ELSE Casefold(Head(s)) \o CasefoldAll(Tail(s))

\* _NORMALIZE_MAP, in the order of the dict
NORMALIZE_MAP ==
    << <<"&", <<" ", "a", "n", "d", " ">> >>,
       <<"rsquo", <<"'">> >>,
       <<"lsquo", <<"'">> >>,
       <<"ldquo", <<"dquote">> >>,
       <<"rdquo", <<"dquote">> >>,
       <<"en-dash", <<"-">> >>,
       <<"em-dash", <<"-">> >> >>

\* `s.replace(k, v)` for a key of one character
RECURSIVE Replace(_, _, _)
Replace(s, k, v) ==
    IF s = <<>> THEN <<>>
    ELSE (IF Head(s) = k THEN v ELSE <<Head(s)>>) \o Replace(Tail(s), k, v)

\* `for k, v in _NORMALIZE_MAP.items(): s = s.replace(k, v)`, from entry i on
RECURSIVE ReplaceAll(_, _)
ReplaceAll(s, i) ==
    IF i > Len(NORMALIZE_MAP) THEN s
    ELSE ReplaceAll(Replace(s, NORMALIZE_MAP[i][1], NORMALIZE_MAP[i][2]), i + 1)

\* s without its leading characters that are not word characters
RECURSIVE SkipNonWord(_)
SkipNonWord(s) ==
    IF s # <<>> /\ ~IsWord(Head(s)) THEN SkipNonWord(Tail(s)) ELSE s

\* `re.sub(r"[^\w]+", " ", s, flags=re.UNICODE)`
RECURSIVE SubNonWord(_)
SubNonWord(s) ==
    IF s = <<>> THEN <<>>
    ELSE IF IsWord(Head(s)) THEN <<Head(s)>> \o SubNonWord(Tail(s))
    ELSE <<" ">> \o SubNonWord(SkipNonWord(s))

\* s without its leading whitespace
RECURSIVE LStrip(_)
LStrip(s) == IF s # <<>> /\ IsSpace(Head(s)) THEN LStrip(Tail(s)) ELSE s

\* s without its trailing whitespace
RECURSIVE RStrip(_)
RStrip(s) ==
    IF s # <<>> /\ IsSpace(s[Len(s)])
    THEN RStrip(SubSeq(s, 1, Len(s) - 1))
    ELSE s

\* `re.sub(r"\s+", " ", s)`
RECURSIVE SubSpaces(_)
SubSpaces(s) ==
    IF s = <<>> THEN <<>>
    ELSE IF IsSpace(Head(s)) THEN <<" ">> \o SubSpaces(LStrip(s))
    ELSE <<Head(s)>> \o SubSpaces(Tail(s))

\* `.strip()`
Strip(s) == RStrip(LStrip(s))

\* transform.normalize_soft
normalize_soft(s) ==
    IF s = <<>> THEN <<>>
    ELSE Strip(SubSpaces(SubNonWord(ReplaceAll(CasefoldAll(s), 1))))

\* the characters texts are made of when the normaliser is exercised: a
\* small and a capital letter, a digit, the underscore, punctuation,
\* whitespace, and characters _NORMALIZE_MAP replaces
Alphabet ==
    {"a", "A", "d", "1", "_", ".", "&", "rsquo", "en-dash", " ", "tab",
     "sharp-s"}

\* the texts of up to n characters
TextsUpTo(n) == UNION {[1..k -> Alphabet] : k \in 0..n}

InitNormalize ==
    /\ MainIdle
    /\ SvcIdle
    /\ ApiIdle
    /\ FetchIdle
    /\ LimiterIdle
    /\ flt = NoText
    /\ cls = NoText
    /\ \E x \in TextsUpTo(MaxLen) : norm = [pc |-> "given", x |-> x]

\* normalize_soft(x)
Normalize ==
    /\ norm.pc = "given"
    /\ norm' = [pc |-> "once", x |-> norm.x, y |-> normalize_soft(norm.x)]
    /\ UNCHANGED <<main, svcVars, apiVars, fetchVars, limiterVars, flt, cls>>

\* normalize_soft of the result
NormalizeAgain ==
    /\ norm.pc = "once"
    /\ norm' = [pc |-> "twice", x |-> norm.x, y |-> norm.y,
                z |-> normalize_soft(norm.y)]
    /\ UNCHANGED <<main, svcVars, apiVars, fetchVars, limiterVars, flt, cls>>

NextNormalize ==
    \/ Normalize
    \/ NormalizeAgain

SpecNormalize == InitNormalize /\ [][NextNormalize]_vars

\* C30: normalize is idempotent: for every text over letters, digits, the
\* underscore, punctuation, whitespace and the substituted typographic
\* characters, normalising the normal form gives the normal form again.
C30_Idempotent == norm.pc = "twice" => norm.z = norm.y

\* a text that normalisation changes (case folded, "&" spelled out,
\* punctuation dropped) has been normalised twice
C30_Witness ==
    /\ norm.pc = "twice"
    /\ norm.y # norm.x
    /\ \E i \in 1..Len(norm.x) : norm.x[i] = "&"
    /\ \E i \in 1..Len(norm.x) : norm.x[i] # "&" /\ IsWord(norm.x[i])


\* --------------------------------------------------------- the company filter
MaxWords == 2
MaxCompanies == 2
MaxEmails == 1

BODY_WINDOW == 6000
NoComp == <<>>

\* the index of the first occurrence of p in text from position i on,
\* counted from 0 as str.find does, or -1
RECURSIVE FindFrom(_, _, _)
FindFrom(text, p, i) ==
    IF i + Len(p) > Len(text) THEN -1
    ELSE IF SubSeq(text, i + 1, i + Len(p)) = p THEN i
    ELSE FindFrom(text, p, i + 1)

\* `text.find(p)`
Find(text, p) == FindFrom(text, p, 0)

\* `p in text`
Contains(text, p) == Find(text, p) # -1

\* the characters of s up to its first space
RECURSIVE WordAt(_)
WordAt(s) ==
    IF s = <<>> \/ Head(s) = " " THEN <<>>
    ELSE <<Head(s)>> \o WordAt(Tail(s))

\* _LEGAL_SUFFIX, as it can occur in a text normalize_soft returned (no
\* full stops are left in it)
LEGAL_SUFFIX ==
    {<<"i", "n", "c">>, <<"l", "t", "d">>, <<"g", "m", "b", "h">>,
     <<"s", "a", "s">>, <<"s", "r", "l">>, <<"l", "l", "c">>,
     <<"c", "o", "r", "p">>, <<"c", "o">>, <<"p", "l", "c">>}

\* `re.sub(rf"\b{_LEGAL_SUFFIX}\b\.?", "", s)` on a text normalize_soft
\* returned: every word that is a legal suffix goes, wherever it stands
RECURSIVE StripSuffixes(_)
StripSuffixes(s) ==
    IF s = <<>> THEN <<>>
    ELSE IF Head(s) = " " THEN <<" ">> \o StripSuffixes(Tail(s))
    ELSE LET w == WordAt(s)
             rest == SubSeq(s, Len(w) + 1, Len(s))
         IN  (IF w \in LEGAL_SUFFIX THEN <<>> ELSE w) \o StripSuffixes(rest)

\* transform.normalize_company
normalize_company(s) ==
    LET t == normalize_soft(s)
    IN  IF t = <<>> THEN <<>> ELSE Strip(SubSpaces(StripSuffixes(t)))

\* those of SKIP_HINTS short enough to occur in the texts below
SKIP_HINTS == {<<"o", "t", "p">>, <<"2", "f", "a">>}

\* no email is ever taken for noise
should_skip_never(email) == FALSE

\* filters.should_skip
should_skip(email) ==
    LET hay == normalize_soft(email.subject \o <<" ">> \o email.head)
    IN  \E h \in SKIP_HINTS : Contains(hay, h)

\* the keys of a dict built from the list cs, in insertion order
RECURSIVE DictKeys(_)
DictKeys(cs) ==
    IF cs = <<>> THEN <<>>
    ELSE LET front == DictKeys(SubSeq(cs, 1, Len(cs) - 1))
             last == cs[Len(cs)]
         IN  IF \E i \in 1..Len(front) : front[i] = last THEN front
             ELSE Append(front, last)

\* an empty normal name taken for a name like any other
HasNameAlways(norm_) == TRUE

\* `if not norm: continue`, `if norm and ...`: the normal name is not empty
HasName(norm_) == norm_ # <<>>

\* the last company of the dict whose name is in the text
RECURSIVE LastMatch(_, _)
LastMatch(keys, text_norm) ==
    IF keys = <<>> THEN NoComp
    ELSE LET norm_ == normalize_company(keys[Len(keys)])
         IN  IF norm_ # <<>> /\ Contains(text_norm, norm_) THEN keys[Len(keys)]
             ELSE LastMatch(SubSeq(keys, 1, Len(keys) - 1), text_norm)

\* `for comp, norm in norm_companies.items()`: the first company whose
\* normal name is not empty and is in the text, or NoComp
RECURSIVE FirstMatch(_, _)
FirstMatch(keys, text_norm) ==
    IF keys = <<>> THEN NoComp
    ELSE LET norm_ == normalize_company(Head(keys))
         IN  IF HasName(norm_) /\ Contains(text_norm, norm_) THEN Head(keys)
             ELSE FirstMatch(Tail(keys), text_norm)

\* `text[:n]`
Take(text, n) == SubSeq(text, 1, IF n < Len(text) THEN n ELSE Len(text))

\* the body looked at before the head
MatchBodyFirst(email, keys) ==
    LET inBody == FirstMatch(keys, normalize_soft(email.text_full))
    IN  IF should_skip(email) THEN NoComp
        ELSE IF inBody # NoComp THEN inBody
        ELSE FirstMatch(keys, normalize_soft(email.head))

\* the body of filter_by_company's loop: the company the email goes to, or
\* NoComp
Match(email, keys) ==
    LET head_norm == normalize_soft(email.head)
        inHead == FirstMatch(keys, head_norm)
        text_full == Take(email.text_full, BODY_WINDOW)
    IN  IF should_skip(email) THEN NoComp
        ELSE IF inHead # NoComp THEN inHead
        ELSE IF text_full = <<>> THEN NoComp
        ELSE FirstMatch(keys, normalize_soft(text_full))

\* `result.setdefault(comp, []).append(email)`
SetDefaultAppend(result, comp, email) ==
    IF comp \in DOMAIN result
    THEN [result EXCEPT ![comp] = Append(@, email)]
    ELSE [c \in DOMAIN result \cup {comp} |->
              IF c = comp THEN <<email>> ELSE result[c]]

\* the words texts are made of: a company's name, another one's in
\* capitals, and a noise marker
Words == {<<"a">>, <<"B">>, <<"O", "T", "P">>}

\* the words of ws with single spaces between them
RECURSIVE Join(_)
Join(ws) ==
    IF ws = <<>> THEN <<>>
    ELSE IF Len(ws) = 1 THEN ws[1]
    ELSE ws[1] \o <<" ">> \o Join(Tail(ws))

\* the texts of up to n words
WordTexts(n) == {Join(ws) : ws \in UNION {[1..k -> Words] : k \in 0..n}}

\* the company names as the sheet has them: "A Co.", "b", and "Co."
RawNames == {<<"A", " ", "C", "o", ".">>, <<"b">>, <<"C", "o", ".">>}

\* the emails the filter is given: the head has up to MaxWords words, the
\* subject and the full text are empty or one word
Emails ==
    [subject : {<<>>} \cup Words, head : WordTexts(MaxWords),
     text_full : {<<>>} \cup Words]

NoEmail == [subject |-> <<>>, head |-> <<>>, text_full |-> <<>>]

\* filter_by_company(emails, companies) is called: `result = {}`
InitFilter ==
    /\ MainIdle
    /\ SvcIdle
    /\ ApiIdle
    /\ FetchIdle
    /\ LimiterIdle
    /\ norm = NoText
    /\ cls = NoText
    /\ \E cs \in UNION {[1..k -> RawNames] : k \in 0..MaxCompanies} :
          flt = [pc |-> "loop", companies |-> cs, n |-> 0, email |-> NoEmail,
                 result |-> <<>>]

\* one turn of `for email in emails`: emails[n] is looked at and goes into
\* at most one list of result; the emails are known by their place n
FilterEmail ==
    /\ flt.pc = "loop"
    /\ flt.n < MaxEmails
    /\ \E email \in Emails :
          LET comp == Match(email, DictKeys(flt.companies))
          IN  flt' = [flt EXCEPT
                         !.pc = "matched",
                         !.n = @ + 1,
                         !.email = email,
                         !.result = IF comp = NoComp THEN @
                                    ELSE SetDefaultAppend(@, comp, flt.n + 1)]
    /\ UNCHANGED <<main, svcVars, apiVars, fetchVars, limiterVars, norm, cls>>

\* the loop goes on to the next email
NextEmail ==
    /\ flt.pc = "matched"
    /\ flt' = [flt EXCEPT !.pc = "loop", !.email = NoEmail]
    /\ UNCHANGED <<main, svcVars, apiVars, fetchVars, limiterVars, norm, cls>>

\* `return result`
FilterReturn ==
    /\ flt.pc = "loop"
    /\ flt' = [flt EXCEPT !.pc = "returned"]
    /\ UNCHANGED <<main, svcVars, apiVars, fetchVars, limiterVars, norm, cls>>

NextFilter ==
    \/ FilterEmail
    \/ NextEmail
    \/ FilterReturn

SpecFilter == InitFilter /\ [][NextFilter]_vars


\* the lists of result that hold email i
ListsOf(i) ==
    {c \in DOMAIN flt.result :
        \E j \in 1..Len(flt.result[c]) : flt.result[c][j] = i}

\* the normal name of company c is not empty and occurs in the text
Occurs(c, text_norm) ==
    normalize_company(c) # <<>> /\ Contains(text_norm, normalize_company(c))

\* the places in the company list of the companies whose name occurs
Named(text_norm) ==
    {i \in 1..Len(flt.companies) : Occurs(flt.companies[i], text_norm)}

\* the normal form of `subject + head` holds a noise marker
Noise(email) ==
    \E h \in SKIP_HINTS :
        Contains(normalize_soft(email.subject \o <<" ">> \o email.head), h)

\* C24: a summary whose normalized `subject + head` contains a configured
\* noise marker is discarded before entity matching: it is in no company's
\* list, whatever company names are in its head or body.
C24_NoiseDiscarded ==
    (flt.pc = "matched" /\ Noise(flt.email)) => ListsOf(flt.n) = {}

\* an email with a noise marker and the name of a listed company in its head
\* has been looked at
C24_Witness ==
    /\ flt.pc = "matched"
    /\ Noise(flt.email)
    /\ Named(normalize_soft(flt.email.head)) # {}
    /\ Named(normalize_soft(flt.email.text_full)) # {}


\* the smallest number of a set of numbers
Least(S) == CHOOSE x \in S : \A y \in S : x <= y

\* how often email i is in the list of company c
Times(c, i) ==
    Cardinality({j \in 1..Len(flt.result[c]) : flt.result[c][j] = i})

\* C25: filter_by_company attributes each summary to at most one company:
\* every summary given so far is in at most one list and at most once in
\* it; when the normal names of several companies occur in the normalized
\* head, the summary goes to the one that is first in the company list.
C25_AtMostOneEntity ==
    flt.pc # "idle" =>
        /\ \A i \in 1..flt.n :
              /\ Cardinality(ListsOf(i)) <= 1
              /\ \A c \in ListsOf(i) : Times(c, i) = 1
        /\ (/\ flt.pc = "matched"
            /\ ~Noise(flt.email)
            /\ Cardinality(Named(normalize_soft(flt.email.head))) > 1)
           => ListsOf(flt.n) =
                 {flt.companies[Least(Named(normalize_soft(flt.email.head)))]}

\* an email whose head names two listed companies, the one listed second
\* first, is in the list of the company listed first
C25_Witness ==
    /\ flt.pc = "matched"
    /\ Len(flt.companies) > 1
    /\ Named(normalize_soft(flt.email.head)) = {1, 2}
    /\ Find(normalize_soft(flt.email.head),
            normalize_company(flt.companies[2])) = 0
    /\ ListsOf(flt.n) = {flt.companies[1]}

MaxListed == 2

\* those of PHRASES_POS and PHRASES_NEG short enough to occur in the heads
\* below, in the order of the lists
PHRASES_POS == << <<"a", "p", "p", "r", "o", "v", "e">>,
                  <<"a", "p", "p", "r", "o", "v", "e", "d">> >>

PHRASES_NEG == << <<"d", "e", "c", "l", "i", "n", "e", "d">>,
                  <<"d", "e", "c", "l", "i", "n", "e">> >>

\* p put into the list ps, which has the longer phrases first, behind the
\* phrases that are as long as p or longer (sorted is stable)
RECURSIVE InsertByLen(_, _)
InsertByLen(ps, p) ==
    IF ps = <<>> THEN <<p>>
    ELSE IF Len(Head(ps)) >= Len(p) THEN <<Head(ps)>> \o InsertByLen(Tail(ps), p)
    ELSE <<p>> \o ps

\* `sorted([normalize_soft(p) for p in phrases if p], key=len, reverse=True)`
RECURSIVE SortedLongerFirst(_)
SortedLongerFirst(phrases) ==
    IF phrases = <<>> THEN <<>>
    ELSE LET front == SortedLongerFirst(SubSeq(phrases, 1, Len(phrases) - 1))
             last == phrases[Len(phrases)]
         IN  IF last = <<>> THEN front
             ELSE InsertByLen(front, normalize_soft(last))

\* filters._build_phrase_indexes
pos_norm == SortedLongerFirst(PHRASES_POS)

neg_norm == SortedLongerFirst(PHRASES_NEG)

\* one loop of _first_hit_indices: the smallest index at which a phrase of
\* ps is found in the text, or -1; idx is the smallest so far
RECURSIVE FirstHit(_, _, _)
FirstHit(text_norm, ps, idx) ==
    IF ps = <<>> THEN idx
    ELSE LET i == Find(text_norm, Head(ps))
         IN  FirstHit(text_norm, Tail(ps),
                      IF i # -1 /\ (idx = -1 \/ i < idx) THEN i ELSE idx)

\* filters._first_hit_indices
first_hit_indices(text_norm) ==
    [pos_idx |-> FirstHit(text_norm, pos_norm, -1),
     neg_idx |-> FirstHit(text_norm, neg_norm, -1)]

\* the later hit wins
BucketLastHit(pos_idx, neg_idx) ==
    IF pos_idx = -1 /\ neg_idx = -1 THEN "review"
    ELSE IF pos_idx # -1 /\ neg_idx = -1 THEN "approve"
    ELSE IF neg_idx # -1 /\ pos_idx = -1 THEN "decline"
    ELSE IF pos_idx > neg_idx THEN "approve" ELSE "decline"

\* the if/elif chain of classify_latest
Bucket(pos_idx, neg_idx) ==
    IF pos_idx = -1 /\ neg_idx = -1 THEN "review"
    ELSE IF pos_idx # -1 /\ neg_idx = -1 THEN "approve"
    ELSE IF neg_idx # -1 /\ pos_idx = -1 THEN "decline"
    ELSE IF pos_idx < neg_idx THEN "approve" ELSE "decline"

\* classify_latest._ts: `int(msg.get("internalDate") or 0)`
ts_(msg) == IF msg.internalDate = None THEN 0 ELSE msg.internalDate

\* a key replaces the largest so far when it is as large
BeatsOrTies(key, best) == key >= best

\* max() replaces the largest so far only by a strictly larger key
Beats(key, best) == key > best

\* `max(emails, key=_ts)` from emails[i] on, emails[best] being the largest
\* so far: the place of the email it returns
RECURSIVE MaxFrom(_, _, _)
MaxFrom(emails, i, best) ==
    IF i > Len(emails) THEN best
    ELSE MaxFrom(emails, i + 1,
                 IF Beats(ts_(emails[i]), ts_(emails[best])) THEN i ELSE best)

\* the body of classify_latest's loop for a company with emails: the place
\* of the latest email and its bucket
ClassifyOne(emails) ==
    LET latest == MaxFrom(emails, 2, 1)
        head_norm == normalize_soft(emails[latest].head)
        hit == first_hit_indices(head_norm)
    IN  [latest |-> latest, bucket |-> Bucket(hit.pos_idx, hit.neg_idx)]

NoPick == [latest |-> 0, bucket |-> "none"]

\* the latest email put into every bucket
PutLatestEverywhere(out, bucket, company, latest) ==
    [b \in DOMAIN out |-> SetDefaultAppend(out[b], company, latest)]

\* `out[bucket].setdefault(company, []).append(latest)`
PutLatest(out, bucket, company, latest) ==
    [out EXCEPT ![bucket] = SetDefaultAppend(@, company, latest)]

\* a positive phrase with a capital, and a negative phrase
PhraseWords == [pos |-> <<"A", "p", "p", "r", "o", "v", "e", "d">>,
                neg |-> <<"d", "e", "c", "l", "i", "n", "e">>]

\* the heads: no phrase, a positive one, a negative one, and both in either
\* order
Heads ==
    {<<>>, PhraseWords.pos, PhraseWords.neg,
     Join(<<PhraseWords.pos, PhraseWords.neg>>),
     Join(<<PhraseWords.neg, PhraseWords.pos>>)}

\* the emails a company's list is made of; internalDate can be missing
Listed == [head : Heads, internalDate : {None} \cup Dates]

\* the emails in the lists of the companies so far
Sum(sizes) ==
    IF sizes = <<>> THEN 0
    ELSE LET S[i \in 0..Len(sizes)] ==
                 IF i = 0 THEN 0 ELSE S[i - 1] + sizes[i]
         IN  S[Len(sizes)]

\* classify_latest(filtered) is called:
\* `out = {"approve": {}, "decline": {}, "review": {}}`
InitClassify ==
    /\ MainIdle
    /\ SvcIdle
    /\ ApiIdle
    /\ FetchIdle
    /\ LimiterIdle
    /\ norm = NoText
    /\ flt = NoText
    /\ cls = [pc |-> "loop", sizes |-> <<>>, emails |-> <<>>,
              first |-> NoPick, again |-> NoPick,
              out |-> [b \in Range(Buckets) |-> <<>>]]

\* one turn of `for company, emails in filtered.items()`: the companies
\* are known by their place in filtered, the emails by their place in the
\* company's list; all lists together hold up to MaxListed emails
ClassifyCompany ==
    /\ cls.pc = "loop"
    /\ Len(cls.sizes) < MaxCompanies
    /\ \E n \in 0..(MaxListed - Sum(cls.sizes)) :
          \E emails \in [1..n -> Listed] :
              LET company == Len(cls.sizes) + 1
                  pick == IF emails = <<>> THEN NoPick ELSE ClassifyOne(emails)
              IN  cls' = [cls EXCEPT
                             !.pc = "classified",
                             !.sizes = Append(@, n),
                             !.emails = emails,
                             !.first = pick,
                             !.out = IF emails = <<>> THEN @
                                     ELSE PutLatest(@, pick.bucket, company,
                                                    pick.latest)]
    /\ UNCHANGED <<main, svcVars, apiVars, fetchVars, limiterVars, norm, flt>>

\* the same list is classified once more
Reclassify ==
    /\ cls.pc = "classified"
    /\ cls' = [cls EXCEPT
                  !.pc = "again",
                  !.again = IF cls.emails = <<>> THEN NoPick
                            ELSE ClassifyOne(cls.emails)]
    /\ UNCHANGED <<main, svcVars, apiVars, fetchVars, limiterVars, norm, flt>>

\* the loop goes on to the next company
NextCompany ==
    /\ cls.pc = "again"
    /\ cls' = [cls EXCEPT !.pc = "loop", !.emails = <<>>, !.first = NoPick,
                          !.again = NoPick]
    /\ UNCHANGED <<main, svcVars, apiVars, fetchVars, limiterVars, norm, flt>>

\* `return out`
ClassifyReturn ==
    /\ cls.pc = "loop"
    /\ cls' = [cls EXCEPT !.pc = "returned"]
    /\ UNCHANGED <<main, svcVars, apiVars, fetchVars, limiterVars, norm, flt>>

NextClassify ==
    \/ ClassifyCompany
    \/ Reclassify
    \/ NextCompany
    \/ ClassifyReturn

SpecClassify == InitClassify /\ [][NextClassify]_vars

\* the buckets that hold company c
BucketsOf(c) == {b \in Range(Buckets) : c \in DOMAIN cls.out[b]}

\* the company at hand
AtHand == Len(cls.sizes)

\* the indices at which a phrase of ps starts in the text
HitsOf(text_norm, ps) ==
    {i \in 0..Len(text_norm) :
        \E j \in 1..Len(ps) :
            /\ ps[j] # <<>>
            /\ i + Len(ps[j]) <= Len(text_norm)
            /\ SubSeq(text_norm, i + 1, i + Len(ps[j])) = normalize_soft(ps[j])}

\* C27: the decision rule on the normalized head of the selected summary:
\* no phrase gives review, only positive ones approve, only negative ones
\* decline; with both, approve if the earliest positive index is strictly
\* less than the earliest negative index, decline otherwise.
C27_DecisionRule ==
    (cls.pc = "classified" /\ cls.emails # <<>>) =>
        LET head_norm == normalize_soft(cls.emails[cls.first.latest].head)
            pos == HitsOf(head_norm, PHRASES_POS)
            neg == HitsOf(head_norm, PHRASES_NEG)
        IN  BucketsOf(AtHand) =
                {IF pos = {} /\ neg = {} THEN "review"
                 ELSE IF neg = {} THEN "approve"
                 ELSE IF pos = {} THEN "decline"
                 ELSE IF Least(pos) < Least(neg) THEN "approve"
                 ELSE "decline"}

\* a head with a negative phrase first and a positive one after it has been
\* classified as decline
C27_Witness ==
    /\ cls.pc = "classified"
    /\ cls.emails # <<>>
    /\ LET head_norm == normalize_soft(cls.emails[cls.first.latest].head)
       IN  /\ HitsOf(head_norm, PHRASES_POS) # {}
           /\ HitsOf(head_norm, PHRASES_NEG) # {}
           /\ Least(HitsOf(head_norm, PHRASES_NEG))
                 < Least(HitsOf(head_norm, PHRASES_POS))
    /\ BucketsOf(AtHand) = {"decline"}

\* the timestamp of the company's i-th email as a number, a missing one
\* counting as 0
Stamp(i) ==
    IF cls.emails[i].internalDate = None THEN 0
    ELSE cls.emails[i].internalDate

\* C28: per company classify_latest selects the summary with the
\* numerically largest timestamp, among those with the largest the first in
\* the company's list; invoked again it selects the same summary and bucket.
C28_LatestFirst ==
    (cls.pc \in {"classified", "again"} /\ cls.emails # <<>>) =>
        /\ \A b \in BucketsOf(AtHand) : cls.out[b][AtHand] = <<cls.first.latest>>
        /\ \A i \in 1..Len(cls.emails) : Stamp(i) <= Stamp(cls.first.latest)
        /\ \A i \in 1..(cls.first.latest - 1) : Stamp(i) < Stamp(cls.first.latest)
        /\ cls.pc = "again" => cls.again = cls.first

\* two emails share the largest timestamp, an older one comes before them,
\* and the list has been classified twice
C28_Witness ==
    /\ cls.pc = "again"
    /\ Len(cls.emails) > 1
    /\ \E i, j \in 1..Len(cls.emails) :
          /\ i < j
          /\ Stamp(i) = Stamp(j)
          /\ cls.first.latest = i
          /\ cls.emails[i].head # cls.emails[j].head

\* C29: in the output every company with at least one summary is in exactly
\* one bucket, with a list of exactly one summary of its input list; a
\* company with an empty list is in no bucket; no company is in the output
\* that was not in the input.
C29_OneBucketEach ==
    cls.pc # "idle" =>
        /\ \A c \in 1..Len(cls.sizes) :
              IF cls.sizes[c] > 0
              THEN /\ Cardinality(BucketsOf(c)) = 1
                   /\ \A b \in BucketsOf(c) :
                         /\ Len(cls.out[b][c]) = 1
                         /\ cls.out[b][c][1] \in 1..cls.sizes[c]
              ELSE BucketsOf(c) = {}
        /\ \A b \in Range(Buckets) : DOMAIN cls.out[b] \subseteq 1..Len(cls.sizes)

\* the output is returned for a company with emails and one without
C29_Witness ==
    /\ cls.pc = "returned"
    /\ \E c, d \in 1..Len(cls.sizes) :
          /\ cls.sizes[c] > 1
          /\ cls.sizes[d] = 0
          /\ BucketsOf(c) # {}


\* ------------------------------------------------------------ company names
\* the words company names are made of: a legal suffix, a name, a word
\* that begins with the letters of a suffix, a suffix with a full stop, a
\* word outside the suffix set, another name, and a suffix in capitals
NameWords ==
    {<<"C", "o">>, <<"A">>, <<"C", "o", "b">>, <<"I", "n", "c", ".">>,
     <<"c", "o", "r", "p", "o", "r", "a", "t", "i", "o", "n">>, <<"b">>,
     <<"L", "L", "C">>}

\* the names of up to n words
Names(n) == {Join(ws) : ws \in UNION {[1..k -> NameWords] : k \in 0..n}}

InitCompany ==
    /\ MainIdle
    /\ SvcIdle
    /\ ApiIdle
    /\ FetchIdle
    /\ LimiterIdle
    /\ flt = NoText
    /\ cls = NoText
    /\ \E x \in Names(MaxWords) : norm = [pc |-> "name", x |-> x]

\* normalize_company(x)
NormalizeCompany ==
    /\ norm.pc = "name"
    /\ norm' = [pc |-> "company", x |-> norm.x, y |-> normalize_company(norm.x)]
    /\ UNCHANGED <<main, svcVars, apiVars, fetchVars, limiterVars, flt, cls>>

NextCompanyName ==
    \/ NormalizeCompany

SpecCompany == InitCompany /\ [][NextCompanyName]_vars

\* the words of a text whose words are separated by single spaces
RECURSIVE Tokens(_)
Tokens(s) ==
    IF s = <<>> THEN <<>>
    ELSE IF Head(s) = " " THEN Tokens(Tail(s))
    ELSE LET w == WordAt(s)
         IN  <<w>> \o Tokens(SubSeq(s, Len(w) + 1, Len(s)))

\* C31: normalize_company removes a legal-suffix token only when it is the
\* standalone last token of the normalized name: every token before the
\* last one is preserved, in place, whether it is a suffix or not.
C31_Claimed ==
    norm.pc = "company" =>
        LET given == Tokens(normalize_soft(norm.x))
            kept == Tokens(norm.y)
        IN  \A i \in 1..(Len(given) - 1) :
                i <= Len(kept) /\ kept[i] = given[i]


\* the places of the emails at hand whose normalized head holds a positive
\* or a negative phrase
WithPhrase ==
    {i \in 1..Len(cls.emails) :
        LET head_norm == normalize_soft(cls.emails[i].head)
        IN  HitsOf(head_norm, PHRASES_POS) \cup HitsOf(head_norm, PHRASES_NEG)
                # {}}

\* C32: stage 2 keeps only the emails that hold a positive or negative
\* phrase before it selects the newest: when some email of the company holds
\* a phrase, the classified email is the newest of those that do, so a newer
\* email without a phrase does not replace an older one with a phrase.
C32_Claimed ==
    (cls.pc = "classified" /\ WithPhrase # {}) =>
        /\ cls.first.latest \in WithPhrase
        /\ \A i \in WithPhrase : Stamp(i) <= Stamp(cls.first.latest)


\* the places in the company list of the companies whose normal name is
\* empty
Nameless == {i \in 1..Len(flt.companies) :
                normalize_company(flt.companies[i]) = <<>>}

\* C40: a company whose normalized name is empty never matches: no summary
\* is attributed to it, from the head or from the body, and it does not keep
\* a company listed after it from getting a summary that names that one.
C40_EmptyNameNeverMatches ==
    flt.pc # "idle" =>
        /\ \A c \in DOMAIN flt.result : normalize_company(c) # <<>>
        /\ (/\ flt.pc = "matched"
            /\ ~Noise(flt.email)
            /\ \E i \in Nameless :
                  \E j \in (i + 1)..Len(flt.companies) :
                      \/ Occurs(flt.companies[j], normalize_soft(flt.email.head))
                      \/ Occurs(flt.companies[j],
                                normalize_soft(flt.email.text_full)))
           => ListsOf(flt.n) # {}

\* the company listed first has an empty normal name, the one after it is
\* named only in the body, and the email is in that one's list
C40_Witness ==
    /\ flt.pc = "matched"
    /\ Len(flt.companies) > 1
    /\ 1 \in Nameless
    /\ Named(normalize_soft(flt.email.head)) = {}
    /\ Named(normalize_soft(flt.email.text_full)) = {2}
    /\ ListsOf(flt.n) = {flt.companies[2]}

\* ====================================================================
\* The service process: service_async.main, PipelineScheduler and the
\* health endpoint. Time runs in ticks of one second (wait_interval).
\* ====================================================================
MaxRuns == 2        \* the loop starts at most MaxRuns pipeline runs
MaxInterval == 2    \* interval_seconds ranges over 1..MaxInterval
MaxSignals == 2     \* SIGTERM / SIGINT are delivered at most MaxSignals times

JoinTimeout == 30   \* stop(timeout=30.0)

\* `PipelineScheduler.__init__`: flags down, statistics at zero, no thread
NewScheduler(interval) ==
    [pc |-> "update", running |-> FALSE, shutdown_requested |-> FALSE,
     runs |-> 0, successful_runs |-> 0, failed_runs |-> 0,
     last_error |-> FALSE, interval |-> interval,
     loop |-> "none", waited |-> 0,
     frames |-> <<>>, elapsed |-> 0, signals |-> 0,
     outcome |-> "none", stopCalled |-> FALSE, stopReturned |-> FALSE,
     lateRun |-> FALSE, late |-> 0]

\* main() is entered; the scheduler does not exist yet, its fields show
\* what the constructor will set
InitService ==
    /\ MainIdle
    /\ ApiIdle
    /\ FetchIdle
    /\ LimiterIdle
    /\ TextIdle
    /\ cyc = NoSvc
    /\ \E i \in 1..MaxInterval, h \in BOOLEAN :
          /\ sch = [NewScheduler(i) EXCEPT !.pc = "health"]
          /\ hs = [enabled |-> h, handler_func |-> "none",
                   server_func |-> "none", serving |-> FALSE,
                   reply |-> [func |-> "none"]]

\* the main thread runs its own code only while no signal handler is active
MainAt(p) == sch.pc = p /\ sch.frames = <<>>

\* `if cfg["HEALTH_CHECK_ENABLED"]: HealthCheckServer(port, initial_health_func)`
\* stores the function on the handler class; `health_server.start()`
HealthInit ==
    /\ MainAt("health")
    /\ sch' = [sch EXCEPT !.pc = "create"]
    /\ hs' = IF hs.enabled
             THEN [hs EXCEPT !.handler_func = "initial", !.serving = TRUE]
             ELSE hs
    /\ UNCHANGED <<main, apiVars, fetchVars, limiterVars, textVars, cyc>>

\* `scheduler = PipelineScheduler(pipeline_func=main_async, interval_seconds=...)`;
\* the constructor installs the signal handlers
CreateScheduler ==
    /\ MainAt("create")
    /\ sch' = NewScheduler(sch.interval)
    /\ UNCHANGED <<main, apiVars, fetchVars, limiterVars, textVars, hs, cyc>>

\* where `health_server._health_func = scheduler.get_health` leaves the
\* function: on the server object
SetHealthFunc(h) == [h EXCEPT !.server_func = "scheduler"]

\* `if health_server: health_server._health_func = scheduler.get_health`
UpdateHealth ==
    /\ MainAt("update")
    /\ sch' = [sch EXCEPT !.pc = "start"]
    /\ hs' = IF hs.serving THEN SetHealthFunc(hs) ELSE hs
    /\ UNCHANGED <<main, apiVars, fetchVars, limiterVars, textVars, cyc>>

\* `scheduler.start()`: `if self.running: return`, else raise `running`,
\* lower `shutdown_requested` and start the loop thread
SchedStart ==
    /\ MainAt("start")
    /\ sch' = IF sch.running
              THEN [sch EXCEPT !.pc = "wait"]
              ELSE [sch EXCEPT !.pc = "wait", !.running = TRUE,
                               !.shutdown_requested = FALSE, !.loop = "while"]
    /\ UNCHANGED <<main, apiVars, fetchVars, limiterVars, textVars, hs, cyc>>

ThreadAlive(s) == s.loop \notin {"none", "ended"}

\* `scheduler.wait()`: thread.join() returns when the loop thread has ended
WaitReturn ==
    /\ MainAt("wait")
    /\ ~ThreadAlive(sch)
    /\ sch' = [sch EXCEPT !.pc = "finally"]
    /\ UNCHANGED <<main, apiVars, fetchVars, limiterVars, textVars, hs, cyc>>

\* stop() up to its join: `if not self.running: return`, else both flags
\* are set and a living thread is joined
StopBody(s) ==
    IF ~s.running THEN [s EXCEPT !.stopCalled = TRUE, !.stopReturned = TRUE]
    ELSE LET t == [s EXCEPT !.running = FALSE, !.shutdown_requested = TRUE,
                            !.stopCalled = TRUE]
         IN  IF ThreadAlive(t) THEN [t EXCEPT !.elapsed = 0]
             ELSE [t EXCEPT !.stopReturned = TRUE]

\* TRUE iff stop() called in state s blocks in thread.join
StopJoins(s) == s.running /\ ThreadAlive(s)

\* `finally: if scheduler: scheduler.stop()`, `health_server.stop()`; the
\* loop thread has ended by then, so this stop() does not block
FinalStop ==
    /\ MainAt("finally")
    /\ sch' = [StopBody(sch) EXCEPT !.pc = "exited"]
    /\ hs' = [hs EXCEPT !.serving = FALSE]
    /\ UNCHANGED <<main, apiVars, fetchVars, limiterVars, textVars, cyc>>

\* SIGTERM or SIGINT is delivered to the main thread, also while an earlier
\* handler is blocked in join: `self.shutdown_requested = True`
Signal ==
    /\ sch.pc \in {"update", "start", "wait", "finally"}
    /\ sch.signals < MaxSignals
    /\ sch' = [sch EXCEPT !.signals = @ + 1, !.shutdown_requested = TRUE,
                          !.frames = Append(@, "stop")]
    /\ UNCHANGED <<main, apiVars, fetchVars, limiterVars, textVars, hs, cyc>>

Top(s) == s.frames[Len(s.frames)]

Pop(s) == [s EXCEPT !.frames = SubSeq(@, 1, Len(@) - 1)]

\* the handler calls `self.stop()`
HandlerStop ==
    /\ sch.pc \in {"update", "start", "wait", "finally"}
    /\ sch.frames # <<>>
    /\ Top(sch) = "stop"
    /\ sch' = IF StopJoins(sch)
              THEN [StopBody(sch) EXCEPT !.frames[Len(sch.frames)] = "join"]
              ELSE Pop(StopBody(sch))
    /\ UNCHANGED <<main, apiVars, fetchVars, limiterVars, textVars, hs, cyc>>

\* `self.thread.join(timeout=timeout)` returns: the thread ended or the
\* timeout passed; stop() returns to the handler, the handler returns
JoinReturn ==
    /\ sch.pc \in {"update", "start", "wait", "finally"}
    /\ sch.frames # <<>>
    /\ Top(sch) = "join"
    /\ ~ThreadAlive(sch) \/ sch.elapsed >= JoinTimeout
    /\ sch' = [Pop(sch) EXCEPT !.stopReturned = TRUE, !.elapsed = 0]
    /\ UNCHANGED <<main, apiVars, fetchVars, limiterVars, textVars, hs, cyc>>

\* `while self.running and not self.shutdown_requested:`
LoopCond(s) == s.running /\ ~s.shutdown_requested

\* the loop condition holds: `self._run_pipeline()` is entered
LoopEnter ==
    /\ sch.pc \in {"wait", "finally", "exited"}
    /\ sch.loop = "while"
    /\ LoopCond(sch)
    /\ sch.runs < MaxRuns
    /\ sch' = [sch EXCEPT !.loop = "run", !.outcome = "none",
                          !.lateRun = @ \/ sch.stopReturned]
    /\ UNCHANGED <<main, apiVars, fetchVars, limiterVars, textVars, hs, cyc>>

\* the loop condition fails: the thread ends
LoopExit ==
    /\ sch.pc \in {"wait", "finally", "exited"}
    /\ sch.loop = "while"
    /\ ~LoopCond(sch)
    /\ sch' = [sch EXCEPT !.loop = "ended"]
    /\ UNCHANGED <<main, apiVars, fetchVars, limiterVars, textVars, hs, cyc>>

\* _run_pipeline: the pipeline function returned
RunSucceeds ==
    /\ sch.pc \in {"wait", "finally", "exited"}
    /\ sch.loop = "run"
    /\ sch' = [sch EXCEPT !.runs = @ + 1, !.successful_runs = @ + 1,
                          !.last_error = FALSE, !.loop = "ran",
                          !.outcome = "returned"]
    /\ UNCHANGED <<main, apiVars, fetchVars, limiterVars, textVars, hs, cyc>>

\* what `except Exception as e:` of _run_pipeline leaves behind
OnRunErrorUncounted(s) ==
    [s EXCEPT !.runs = @ + 1, !.last_error = TRUE, !.loop = "ran",
              !.outcome = "raised"]

OnRunError(s) ==
    [s EXCEPT !.runs = @ + 1, !.failed_runs = @ + 1, !.last_error = TRUE,
              !.loop = "ran", !.outcome = "raised"]

\* _run_pipeline: the pipeline function raised an Exception
RunRaises ==
    /\ sch.pc \in {"wait", "finally", "exited"}
    /\ sch.loop = "run"
    /\ sch' = OnRunError(sch)
    /\ UNCHANGED <<main, apiVars, fetchVars, limiterVars, textVars, hs, cyc>>

\* `if not self.shutdown_requested:` after the run: into the wait with
\* waited = 0, or straight back to the loop condition
AfterRun ==
    /\ sch.pc \in {"wait", "finally", "exited"}
    /\ sch.loop = "ran"
    /\ sch' = IF ~sch.shutdown_requested
              THEN [sch EXCEPT !.loop = "wait", !.waited = 0]
              ELSE [sch EXCEPT !.loop = "while"]
    /\ UNCHANGED <<main, apiVars, fetchVars, limiterVars, textVars, hs, cyc>>

\* `while waited < self.interval_seconds and not self.shutdown_requested:`
WaitCond(s) == s.waited < s.interval /\ ~s.shutdown_requested

\* the wait condition is evaluated: time.sleep is entered, or the wait ends
WaitCheck ==
    /\ sch.pc \in {"wait", "finally", "exited"}
    /\ sch.loop = "wait"
    /\ sch' = IF WaitCond(sch)
              THEN [sch EXCEPT !.loop = "sleep"]
              ELSE [sch EXCEPT !.loop = "while"]
    /\ UNCHANGED <<main, apiVars, fetchVars, limiterVars, textVars, hs, cyc>>

Joining(s) == s.frames # <<>> /\ Top(s) = "join"

\* one second passes while the loop thread sleeps or runs the pipeline:
\* `time.sleep(min(wait_interval, ...))` returns and `waited += wait_interval`;
\* a pending join comes one second closer to its timeout
SecondPasses ==
    /\ sch.pc \in {"wait", "finally", "exited"}
    /\ \/ sch.loop = "sleep"
       \/ sch.loop = "run" /\ Joining(sch) /\ sch.elapsed < JoinTimeout
    /\ sch' = [sch EXCEPT
                 !.loop = IF @ = "sleep" THEN "wait" ELSE @,
                 !.waited = IF sch.loop = "sleep" THEN @ + 1 ELSE @,
                 !.late = IF sch.loop = "sleep" /\ sch.shutdown_requested
                          THEN @ + 1 ELSE @,
                 !.elapsed = IF Joining(sch) THEN Min(@ + 1, JoinTimeout) ELSE @]
    /\ UNCHANGED <<main, apiVars, fetchVars, limiterVars, textVars, hs, cyc>>

\* PipelineScheduler.get_health: healthy iff running, at least one run, no
\* last error, and the last run no more than two intervals ago (stale)
GetHealthStatus(s, stale) ==
    IF s.running /\ s.runs > 0 /\ ~s.last_error /\ ~(s.runs > 0 /\ stale)
    THEN "healthy" ELSE "unhealthy"

\* HealthCheckHandler._handle_health: `status_code = 200 if
\* health_data.get("status") == "healthy" else 503`
StatusCode(status) == IF status = "healthy" THEN 200 ELSE 503

\* the function the handler calls: its class attribute health_func
HandlerFunc(h) == h.handler_func

\* GET /health is answered by HealthCheckHandler.do_GET
GetHealth ==
    /\ sch.pc # "idle"
    /\ hs.serving
    /\ \E stale \in BOOLEAN :
          LET f == HandlerFunc(hs)
              status == IF f = "none" THEN "unavailable"
                        ELSE IF f = "initial" THEN "initializing"
                        ELSE GetHealthStatus(sch, stale)
          IN  hs' = [hs EXCEPT !.reply =
                        [func |-> f, status |-> status,
                         code |-> StatusCode(status),
                         updated |-> sch.pc \notin {"health", "create", "update"}]]
    /\ UNCHANGED <<main, apiVars, fetchVars, limiterVars, textVars, sch, cyc>>

NextService ==
    \/ HealthInit
    \/ CreateScheduler
    \/ UpdateHealth
    \/ SchedStart
    \/ WaitReturn
    \/ FinalStop
    \/ Signal
    \/ HandlerStop
    \/ JoinReturn
    \/ LoopEnter
    \/ LoopExit
    \/ RunSucceeds
    \/ RunRaises
    \/ AfterRun
    \/ WaitCheck
    \/ SecondPasses
    \/ GetHealth

SpecService == InitService /\ [][NextService]_vars

\* the steps of the loop thread and of the main thread; a run in progress
\* returns or raises in the end
Progress ==
    \/ HealthInit
    \/ CreateScheduler
    \/ UpdateHealth
    \/ SchedStart
    \/ WaitReturn
    \/ FinalStop
    \/ HandlerStop
    \/ JoinReturn
    \/ LoopEnter
    \/ LoopExit
    \/ RunSucceeds
    \/ RunRaises
    \/ AfterRun
    \/ WaitCheck
    \/ SecondPasses

SpecServiceFair == SpecService /\ WF_vars(Progress)

Started == sch.pc \in {"wait", "finally", "exited"}

\* a run of the loop has just ended by raising
JustRaised == Started /\ sch.loop = "ran" /\ sch.outcome = "raised"

C33_Counted ==
    Started /\ sch.loop # "run" => sch.runs = sch.successful_runs + sch.failed_runs

C33_Recorded ==
    (Started /\ sch.loop = "run" /\ sch'.loop # "run" /\ sch'.outcome = "raised")
        => /\ sch'.runs = sch.runs + 1
           /\ sch'.failed_runs = sch.failed_runs + 1
           /\ sch'.successful_runs = sch.successful_runs
           /\ sch'.last_error
           /\ sch'.loop = "ran"

C33_AfterInterval ==
    (Started /\ sch.loop # "run" /\ sch'.loop = "run" /\ sch.runs > 0)
        => sch.waited = sch.interval

\* C33: a pipeline run that raises is recorded (runs and failed_runs one
\* more, last_error set, successful_runs as before) and leaves the loop
\* alive; unless shutdown is requested the next run starts, after the full
\* interval; between runs, runs = successful_runs + failed_runs
C33_FailedRunGoesOn ==
    /\ []C33_Counted
    /\ [][C33_Recorded /\ C33_AfterInterval]_vars
    /\ (JustRaised /\ sch.runs < MaxRuns)
          ~> (sch.loop = "run" \/ sch.shutdown_requested)

C33_Witness ==
    /\ Started
    /\ sch.loop = "run"
    /\ sch.runs = 1
    /\ sch.failed_runs = 1
    /\ sch.last_error
    /\ sch.waited = sch.interval
    /\ ~sch.shutdown_requested

C34_NoLateRun == ~sch.lateRun

C34_WaitCutShort == sch.late <= 1

C34_LoopEnds == sch.stopCalled ~> (sch.loop = "ended")

\* C34: once stop() has been called, by the service or by the signal
\* handler, the loop thread ends in the end, the wait between runs goes on
\* for at most one more second, and no run begins after stop() has returned
C34_Claimed ==
    /\ []C34_NoLateRun
    /\ []C34_WaitCutShort
    /\ C34_LoopEnds

\* C35: a GET /health answered after service_async.main has handed
\* scheduler.get_health to the health server carries the scheduler's
\* health (200 iff healthy), no longer the initial answer
C35_Claimed ==
    (hs # NoSvc /\ hs.reply.func # "none" /\ hs.reply.updated)
        => /\ hs.reply.func = "scheduler"
           /\ hs.reply.status \in {"healthy", "unhealthy"}
           /\ hs.reply.code = StatusCode(hs.reply.status)

\* ====================================================================
\* Scheduled cycles of one service process: service.py builds its clients
\* and its storage once (create_pipeline_wrapper), service_async.py hands
\* main_async to the scheduler, which builds them in every cycle.
\* ====================================================================
MaxCycles == 2      \* the scheduler starts at most MaxCycles cycles

Services == {"sync", "async"}

Backends == {"memory", "redis"}

\* storage.get(pointer_key) on the storage object the cycle holds
StorageGet(c) == IF c.backend = "redis" THEN c.redis ELSE c.mem

\* storage.set(pointer_key, value)
StorageSetValue(c, value) ==
    IF c.backend = "redis" THEN [c EXCEPT !.redis = value]
    ELSE [c EXCEPT !.mem = value]

\* _init_storage: a connection to the Redis server, or a new, empty
\* InMemoryEmailStorage
InitStorageKept(c) == c

InitStorage(c) == IF c.backend = "redis" THEN c ELSE [c EXCEPT !.mem = None]

\* the storage a cycle works on: service.py's pipeline_func uses the object
\* of create_pipeline_wrapper, main_async calls _init_async_clients
CycleStorage(c) == IF c.service = "async" THEN InitStorage(c) ELSE c

InitCycles ==
    /\ MainIdle
    /\ ApiIdle
    /\ FetchIdle
    /\ LimiterIdle
    /\ TextIdle
    /\ sch = NoSvc
    /\ hs = NoSvc
    /\ \E k \in 0..MaxInit, s \in Services, b \in Backends,
          l \in 1..MaxLimit, m \in 1..MaxBatch :
        \E r \in IF b = "redis" THEN {None} \cup (1..k) ELSE {None} :
          cyc = [pc |-> "wait", service |-> s, backend |-> b,
                 mailbox |-> DescIds(k), arrivals |-> 0,
                 redis |-> r, mem |-> None, limit |-> l, max_batch_size |-> m,
                 n |-> 0, marker |-> None, ids |-> <<>>, head_id |-> EmptyStr,
                 attempted |-> {}, left |-> None, advancedTo |-> None,
                 fresh |-> {}, owed |-> {}, missed |-> FALSE,
                 last |-> "none"]

\* a message arrives in the mailbox, between cycles or during one
CycArrive ==
    /\ cyc.pc # "idle"
    /\ cyc.arrivals < MaxArrivals
    /\ LET id == Len(cyc.mailbox) + 1 IN
       cyc' = [cyc EXCEPT !.mailbox = <<id>> \o @, !.arrivals = @ + 1,
                          !.fresh = IF cyc.pc \in {"probe", "briefs", "advance"}
                                    THEN @ \cup {id} ELSE @]
    /\ UNCHANGED <<main, apiVars, fetchVars, limiterVars, textVars, sch, hs>>

\* _run_pipeline calls the pipeline function: the cycle gets its storage
CycleStart ==
    /\ cyc.pc = "wait"
    /\ cyc.n < MaxCycles
    /\ cyc' = [CycleStorage(cyc) EXCEPT !.pc = "list", !.n = @ + 1,
                  !.marker = None, !.ids = <<>>, !.head_id = EmptyStr,
                  !.attempted = {}, !.fresh = {}, !.last = "none"]
    /\ UNCHANGED <<main, apiVars, fetchVars, limiterVars, textVars, sch, hs>>

\* the messages of a listing that are newer than the marker
Newer(listing, marker) ==
    {listing[i] : i \in {j \in 1..Len(listing) : marker = None \/ listing[j] > marker}}

\* how a cycle ends: back to the scheduler's wait; `left` is what the
\* cycle's storage holds then
EndCycle(c, how) == [c EXCEPT !.pc = "wait", !.last = how, !.left = StorageGet(c)]

\* collect_new_messages_once reads the marker and lists until the marker;
\* with IDs it returns them (storing head_id when there was no marker),
\* without IDs it goes on to the newest-ID probe
CollectList ==
    /\ cyc.pc = "list"
    /\ \E ps \in 1..MaxPage :
        LET marker == StorageGet(cyc)
            r == IF cyc.service = "async"
                 THEN ListUntilMarkerAsync(cyc.mailbox, cyc.limit, marker, ps)
                 ELSE ListUntilMarker(cyc.mailbox, cyc.limit, marker, ps)
            ids == r.collected
            seen == [cyc EXCEPT !.marker = marker, !.ids = ids, !.owed = {},
                        !.missed = @ \/ (/\ Cardinality(Newer(cyc.mailbox, marker)) <= cyc.limit
                                         /\ ~(cyc.owed \subseteq Range(ids)))]
        IN  cyc' = IF ids = <<>>
                   THEN [seen EXCEPT !.pc = "probe"]
                   ELSE [StorageSetValue(seen, BootstrapStore(marker, marker, ids[1]))
                            EXCEPT !.pc = "briefs", !.head_id = ids[1]]
    /\ UNCHANGED <<main, apiVars, fetchVars, limiterVars, textVars, sch, hs>>

\* the head_id of a collect without IDs: the probe's newest ID; the sync
\* client falls back to the marker when the probe found nothing
ProbeHead(c, head_probe) ==
    LET head0 == IF head_probe # <<>> THEN head_probe[1] ELSE EmptyStr
    IN  IF c.service = "sync" /\ head0 = EmptyStr /\ Truthy(c.marker)
        THEN c.marker ELSE head0

\* `head_probe, _ = self._list_until_marker(limit=1, marker_id=None)`, then
\* collect_new_messages_once returns no IDs and the cycle returns at
\* `if not ids: return`
CollectProbe ==
    /\ cyc.pc = "probe"
    /\ \E ps \in 1..MaxPage :
        LET head_probe == ListUntilMarker(cyc.mailbox, 1, None, ps).collected
        IN  cyc' = EndCycle([cyc EXCEPT !.head_id = ProbeHead(cyc, head_probe)],
                            "empty")
    /\ UNCHANGED <<main, apiVars, fetchVars, limiterVars, textVars, sch, hs>>

\* gmail.get_message_briefs(ids): a fetch is attempted for processed_ids;
\* filter and classification follow
CycBriefs ==
    /\ cyc.pc = "briefs"
    /\ cyc' = [cyc EXCEPT !.pc = "advance",
                          !.attempted = Range(ProcessedIds(cyc.ids, cyc.max_batch_size))]
    /\ UNCHANGED <<main, apiVars, fetchVars, limiterVars, textVars, sch, hs>>

\* the head_id a cycle hands to advance_pointer_after_processing: the one
\* its collect returned
AdvanceHeadNewest(c) == IF c.mailbox # <<>> THEN c.mailbox[1] ELSE EmptyStr

AdvanceHead(c) == c.head_id

\* gmail.advance_pointer_after_processing(storage, head_id); the cycle returns
CycAdvance ==
    /\ cyc.pc = "advance"
    /\ cyc' = EndCycle([StorageSetValue(cyc, AdvancePointer(StorageGet(cyc), AdvanceHead(cyc)))
                           EXCEPT !.advancedTo = AdvanceHead(cyc), !.owed = cyc.fresh],
                       "advanced")
    /\ UNCHANGED <<main, apiVars, fetchVars, limiterVars, textVars, sch, hs>>

\* the cycle raises (a listing, a fetch of the companies or a sheet writer
\* failed); _run_pipeline records the failure
CycleFail ==
    /\ cyc.pc \in {"list", "briefs", "advance"}
    /\ cyc' = EndCycle(cyc, "failed")
    /\ UNCHANGED <<main, apiVars, fetchVars, limiterVars, textVars, sch, hs>>

NextCycles ==
    \/ CycArrive
    \/ CycleStart
    \/ CollectList
    \/ CollectProbe
    \/ CycBriefs
    \/ CycAdvance
    \/ CycleFail

SpecCycles == InitCycles /\ [][NextCycles]_vars

\* the cycle at hand has read its marker
HasRead == cyc # NoSvc /\ cyc.pc \in {"probe", "briefs", "advance"}

\* C36: in one service process the marker a cycle reads is the marker the
\* cycle before it left, so a later cycle returns only IDs newer than the
\* head_id the earlier cycle advanced to, and bootstraps only while no
\* cycle has left a marker
C36_Claimed ==
    (HasRead /\ cyc.n > 1)
        => /\ cyc.marker = cyc.left
           /\ cyc.advancedTo # None => \A id \in Range(cyc.ids) : id > cyc.advancedTo

\* C37: when the marker is about to be advanced, a fetch was attempted for
\* every ID the cycle's collect returned
C37_Claimed ==
    (cyc # NoSvc /\ cyc.pc = "advance") => Range(cyc.ids) \subseteq cyc.attempted

C39_Claimed ==
    (cyc # NoSvc /\ cyc.pc = "wait" /\ cyc.last = "empty")
        => \/ cyc.head_id = EmptyStr
           \/ cyc.head_id = cyc.marker
           \/ cyc.marker # None /\ cyc.head_id <= cyc.marker

====
